---------------------------- MODULE Spec2Model ----------------------------
(***************************************************************************)
(* RouteWise (src/app.py): destination grouping and leg sequencing         *)
(* (RoutingAgent), the distance/time/toll providers (RouteService,         *)
(* TollService) and the cost estimator (CostCalculationAgent), as driven   *)
(* by the "Calcular Rota e Custos" handler of main().                      *)
(*                                                                         *)
(* Numbers.  The program computes in binary floating point.  The model     *)
(* computes in decimal fixed point:                                        *)
(*   - kilometres, hours and currency are integers counting 1/10000 of     *)
(*     the unit (so a value rounded to 2 decimals is a multiple of 100);   *)
(*   - angles and the values of sin, cos, sqrt, atan2 are integers         *)
(*     counting 1/1000000 (radians, or the pure number);                   *)
(*   - the haversine term "a" is an integer counting 1/1000000000;         *)
(*   - coordinates are integers counting 1/100 of a degree.                *)
(* TLC integers are 32 bits wide, so products are formed limb by limb.     *)
(***************************************************************************)
EXTENDS Integers, Sequences, FiniteSets, TLC

(***************************************************************************)
(* Fixed-point arithmetic                                                  *)
(***************************************************************************)
Mil == 10 * 100
Micro == Mil * Mil            \* 1.0 as a count of 1/1000000
Nano == Mil * Micro           \* 1.0 as a count of 1/1000000000
DezMil == 100 * 100           \* 1.0 as a count of 1/10000

Abs(x) == IF x < 0 THEN -x ELSE x
Sgn(x) == IF x < 0 THEN -1 ELSE IF x > 0 THEN 1 ELSE 0
Max(a, b) == IF a >= b THEN a ELSE b

\* a * b / 10^6 for a, b >= 0, rounded to nearest, without overflow.
MulNat(a, b) ==
    LET a1 == a \div Mil  a0 == a % Mil
        b1 == b \div Mil  b0 == b % Mil
    IN  a1 * b1 + ((a1 * b0 + a0 * b1 + ((a0 * b0 + 500 * Mil) \div Mil)) \div Mil)

\* The product of two fixed-point numbers (both at 10^-6, or one at 10^-6
\* and the other, and the result, at 10^-9).
Mul(a, b) == Sgn(a) * Sgn(b) * MulNat(Abs(a), Abs(b))

\* a / b at 10^-6 for a >= 0, b > 0 (long division in two steps).
Div(a, b) ==
    LET q1 == (a * Mil) \div b
        r1 == (a * Mil) % b
    IN  q1 * Mil + ((r1 * Mil) \div b)

\* math.radians: hundredths of a degree to micro-radians
\* (pi / 180 = 0.0174532925...).
radians(centigraus) ==
    Sgn(centigraus) * ((Abs(centigraus) * 17453) \div 100
                       + (Abs(centigraus) * 2925) \div Micro)

MeioPi == 1570796

RECURSIVE SerieSin(_, _, _, _)
SerieSin(termo, x2, k, n) ==
    IF k > n THEN 0
    ELSE termo + SerieSin(-(Mul(termo, x2) \div (2 * k * (2 * k + 1))), x2, k + 1, n)

\* math.sin for -pi <= x <= pi: x - x^3/3! + x^5/5! - ...
sin(x) == Sgn(x) * SerieSin(Abs(x), Mul(x, x), 1, 11)

RECURSIVE SerieCos(_, _, _, _)
SerieCos(termo, x2, k, n) ==
    IF k > n THEN 0
    ELSE termo + SerieCos(-(Mul(termo, x2) \div ((2 * k - 1) * 2 * k)), x2, k + 1, n)

\* math.cos for -pi <= x <= pi: 1 - x^2/2! + x^4/4! - ...
cos(x) == SerieCos(Micro, Mul(x, x), 1, 11)

\* Newton's iteration from above for sqrt(a * 10^3), a at 10^-9: the
\* result is the square root at 10^-6.
RECURSIVE NewtonNano(_, _)
NewtonNano(a, x) ==
    LET q == (a \div x) * Mil + (((a % x) * Mil) \div x)
        y == (x + q) \div 2
    IN  IF y >= x THEN x ELSE NewtonNano(a, y)

\* math.sqrt of a number at 10^-9 in [0, 1], result at 10^-6.
sqrtNano(a) == IF a <= 0 THEN 0 ELSE NewtonNano(a, Micro)

\* The same for a at 10^-6 (sqrt(a * 10^6)).
RECURSIVE NewtonMicro(_, _)
NewtonMicro(a, x) ==
    LET y == (x + Div(a, x)) \div 2
    IN  IF y >= x THEN x ELSE NewtonMicro(a, y)

\* math.sqrt of a number at 10^-6 in [0, 2], result at 10^-6.
sqrt(a) == IF a <= 0 THEN 0 ELSE NewtonMicro(a, 2 * Micro)

RECURSIVE SerieAtan(_, _, _, _)
SerieAtan(potencia, t2, k, n) ==
    IF k > n THEN 0
    ELSE (potencia \div (2 * k + 1)) + SerieAtan(-Mul(potencia, t2), t2, k + 1, n)

\* atan(t) for 0 <= t <= 1: the argument is halved twice,
\* atan(t) = 2 * atan(t / (1 + sqrt(1 + t^2))), then t - t^3/3 + t^5/5 - ...
Metade(t) == Div(t, Micro + sqrt(Micro + Mul(t, t)))
atan(t) == LET u == Metade(Metade(t)) IN 4 * SerieAtan(u, Mul(u, u), 0, 7)

\* math.atan2(y, x) for y >= 0 and x >= 0, the only quadrant the haversine
\* formula uses (both arguments are square roots).
atan2(y, x) ==
    IF y = 0 THEN 0
    ELSE IF x = 0 THEN MeioPi
    ELSE IF y <= x THEN atan(Div(y, x))
    ELSE MeioPi - atan(Div(x, y))

\* floor(a * 10^n / b) for a >= 0, b > 0, digit by digit.
RECURSIVE DivEscala(_, _, _)
DivEscala(a, b, n) ==
    IF n = 0 THEN a \div b
    ELSE (a \div b) * (10 ^ n) + DivEscala((a % b) * 10, b, n - 1)

\* a * b / 10^4 for a, b >= 0 at 10^-4 (the product of two amounts).
MulDM(a, b) ==
    LET a1 == a \div DezMil  a0 == a % DezMil
        b1 == b \div DezMil  b0 == b % DezMil
    IN  a1 * b1 * DezMil + a1 * b0 + a0 * b1 + ((a0 * b0) \div DezMil)

\* a / b at 10^-4 for a >= 0, b > 0 at 10^-4 (the quotient of two amounts).
DivDM(a, b) == DivEscala(a, b, 4)

\* Python's round(x, 2) and round(x, 1) on an amount at 10^-4: to the
\* nearest multiple, a tie going to the even one.
RoundTo(x, passo) ==
    LET q == x \div passo
        r == x % passo
    IN  IF 2 * r > passo \/ (2 * r = passo /\ q % 2 = 1)
        THEN (q + 1) * passo ELSE q * passo
round2(x) == RoundTo(x, 100)
round1(x) == RoundTo(x, Mil)

\* Python's None, comparable with every dict and coordinate pair (records).
None == [None |-> TRUE]

\* Python's truth value of an optional dict, list or tuple.
bool(v) == v # None /\ v # <<>>

\* sum([...]) over a sequence of numbers.
RECURSIVE sum(_)
sum(xs) == IF xs = <<>> THEN 0 ELSE Head(xs) + sum(Tail(xs))

(***************************************************************************)
(* RoutingAgent._calculate_haversine_distance: a coordinate pair           *)
(* (lat, lon) is the record [lat, lon] in hundredths of a degree, the      *)
(* result is in 1/10000 km.                                                *)
(***************************************************************************)
R == 6371

Meio(x) == Sgn(x) * (Abs(x) \div 2)

\* s ** 2 for a sine at 10^-6, result at 10^-9.
Quadrado(s) ==
    LET h == Abs(s) \div Mil
        l == Abs(s) % Mil
    IN  h * h * Mil + 2 * h * l + ((l * l) \div Mil)

\* R * c for c in micro-radians, result in 1/10000 km.
VezesR(raio, c) == raio * (c \div 100) + ((raio * (c % 100)) \div 100)

\* What math.sqrt raises on a negative argument.
ValueError == [excecao |-> "ValueError"]

\* The expression of line 538 in the model's arithmetic, which follows the
\* exact value to some 10^-5.
haversine_a(coord1, coord2) ==
    LET lat1 == radians(coord1.lat)
        lon1 == radians(coord1.lon)
        lat2 == radians(coord2.lat)
        lon2 == radians(coord2.lon)
        dlat == lat2 - lat1
        dlon == lon2 - lon1
    IN  Quadrado(sin(Meio(dlat)))
        + Mul(Mul(cos(lat1), cos(lat2)), Quadrado(sin(Meio(dlon))))

\* The two points are opposite on the globe: the exact value of a is 1.
Antipodas(coord1, coord2) ==
    /\ coord2.lat = -coord1.lat
    /\ Abs(coord1.lat) = 9000 \/ Abs(coord2.lon - coord1.lon) = 18000

\* Line 538: the double a.  Each operation of the line rounds its result to
\* the nearest double.  Off the antipodes the exact value is below 1 by far
\* more than the roundings add up to, and so is the double.  At antipodal
\* points the double is 1.0 or the double next to it on either side, as the
\* roundings fall for the coordinates at hand: "acima" says that it came out
\* above 1.0.
haversine_a_double(coord1, coord2, acima) ==
    IF Antipodas(coord1, coord2) THEN (IF acima THEN Nano + 1 ELSE Nano)
    ELSE LET a == haversine_a(coord1, coord2)
         IN  IF a < Nano THEN a ELSE Nano - 1

\* Line 539: math.sqrt(a) or math.sqrt(1 - a) is given a negative number.
fora_do_dominio(a) == a < 0 \/ Nano - a < 0

\* Lines 538-541.
calculate_haversine_distance(coord1, coord2, acima) ==
    LET a == haversine_a_double(coord1, coord2, acima)
    IN  IF fora_do_dominio(a) THEN ValueError
        ELSE VezesR(R, 2 * atan2(sqrtNano(a), sqrtNano(Nano - a)))

(***************************************************************************)
(* RouteService: the two requests to the routing service.  A response is   *)
(* [excecao, status_code, json]: excecao says that requests.post raised    *)
(* (timeout, connection error); json is the decoded body, a record.        *)
(***************************************************************************)
RouteService_calculate_optimized_route(api_key, origem, destinos, response) ==
    IF api_key = "" THEN None
    ELSE IF response.excecao THEN None
    ELSE IF response.status_code = 200 THEN response.json
    ELSE None

\* summary['distance'] / 1000 (metres to km) and summary['duration'] / 3600
\* (seconds to hours), at 10^-4.
MetrosParaKm(m) == m * 10
SegundosParaHoras(seg) == (seg * 100) \div 36

calculate_distance_time(api_key, origem, destino, response) ==
    IF api_key = "" THEN None
    ELSE IF response.excecao THEN None
    ELSE IF response.status_code = 200
    THEN LET data == response.json IN
         IF "routes" \in DOMAIN data /\ Len(data.routes) > 0
         THEN LET route == data.routes[1] IN
              IF "summary" \notin DOMAIN route THEN None            \* KeyError
              ELSE IF {"distance", "duration"} \ DOMAIN route.summary # {}
                   THEN None                                        \* KeyError
              ELSE [distancia_km |-> round2(MetrosParaKm(route.summary.distance)),
                    tempo_horas |-> round2(SegundosParaHoras(route.summary.duration)),
                    geometria |-> IF "geometry" \in DOMAIN route
                                  THEN route.geometry ELSE None]
         ELSE None
    ELSE None

(***************************************************************************)
(* TollService                                                             *)
(***************************************************************************)
valor_medio_pedagio == 150000          \* 15.0
KmPorPraca == 150

\* An estimate priced by the kilometre.
estimate_tolls_por_km(origem, destino) ==
    LET lat1 == radians(origem.lat)
        lon1 == radians(origem.lon)
        lat2 == radians(destino.lat)
        lon2 == radians(destino.lon)
        dlat == lat2 - lat1
        dlon == lon2 - lon1
        a == Quadrado(sin(Meio(dlat)))
             + Mul(Mul(cos(lat1), cos(lat2)), Quadrado(sin(Meio(dlon))))
        c == 2 * atan2(sqrtNano(a), sqrtNano(Nano - a))
        distancia == VezesR(R, c)
        valor_pedagio_por_km == (15 * 4) * 10
        numero_pedagogios == Max(1, distancia \div (KmPorPraca * DezMil))
    IN  [valor_total |-> round2(MulDM(distancia, valor_pedagio_por_km)),
         numero_pracas |-> numero_pedagogios,
         valor_medio |-> valor_medio_pedagio,
         estimado |-> TRUE]

\* An estimate that charges no plaza on a leg shorter than 150 km.
estimate_tolls_sem_minimo(origem, destino) ==
    LET lat1 == radians(origem.lat)
        lon1 == radians(origem.lon)
        lat2 == radians(destino.lat)
        lon2 == radians(destino.lon)
        dlat == lat2 - lat1
        dlon == lon2 - lon1
        a == Quadrado(sin(Meio(dlat)))
             + Mul(Mul(cos(lat1), cos(lat2)), Quadrado(sin(Meio(dlon))))
        c == 2 * atan2(sqrtNano(a), sqrtNano(Nano - a))
        distancia == VezesR(R, c)
        numero_pedagogios == distancia \div (KmPorPraca * DezMil)
    IN  [valor_total |-> round2(numero_pedagogios * valor_medio_pedagio),
         numero_pracas |-> numero_pedagogios,
         valor_medio |-> valor_medio_pedagio,
         estimado |-> TRUE]

estimate_tolls_by_distance(origem, destino) ==
    LET lat1 == radians(origem.lat)
        lon1 == radians(origem.lon)
        lat2 == radians(destino.lat)
        lon2 == radians(destino.lon)
        dlat == lat2 - lat1
        dlon == lon2 - lon1
        a == Quadrado(sin(Meio(dlat)))
             + Mul(Mul(cos(lat1), cos(lat2)), Quadrado(sin(Meio(dlon))))
        c == 2 * atan2(sqrtNano(a), sqrtNano(Nano - a))
        distancia == VezesR(R, c)
        valor_pedagio_por_km == (15 * 4) * 10        \* 0.15 * 0.4, unused
        numero_pedagogios == Max(1, distancia \div (KmPorPraca * DezMil))
    IN  [valor_total |-> round2(numero_pedagogios * valor_medio_pedagio),
         numero_pracas |-> numero_pedagogios,
         valor_medio |-> valor_medio_pedagio,
         estimado |-> TRUE]

\* A toll service whose credential turns the estimate into a quoted price.
calculate_route_tolls_cotado(api_key, origem, destino) ==
    IF api_key = "" THEN estimate_tolls_by_distance(origem, destino)
    ELSE [estimate_tolls_by_distance(origem, destino) EXCEPT !.estimado = FALSE]

calculate_route_tolls(api_key, origem, destino) ==
    IF api_key = "" THEN estimate_tolls_by_distance(origem, destino)
    ELSE estimate_tolls_by_distance(origem, destino)     \* the try branch

(***************************************************************************)
(* CostCalculationAgent                                                    *)
(***************************************************************************)
\* Recommendations that open with the two standing reminders.
generate_recommendations_lembretes_primeiro(custo_total, valor_mercadorias, percentual_custo, rota_info) ==
    LET faixa == IF percentual_custo > 15 * DezMil
                 THEN <<"Custo de transporte elevado (>15% do valor das mercadorias)",
                        "Considere consolidar mais entregas na mesma rota">>
                 ELSE IF percentual_custo < 5 * DezMil
                 THEN <<"Excelente eficiencia de custos (<5% do valor das mercadorias)">>
                 ELSE <<"Custos dentro da media esperada (5-15%)">>
        longa == IF rota_info.resumo.tempo_total_dias > 3 * DezMil
                 THEN <<"Rota longa (>3 dias) - avalie logistica de pernoite">>
                 ELSE <<>>
        terceirizar == IF custo_total > 5000 * DezMil
                       THEN <<"Avalie a possibilidade de terceirizacao do transporte">>
                       ELSE <<>>
        pedagogios_total == rota_info.resumo.custo_pedagogios_total
        pedagios == IF pedagogios_total > MulDM(custo_total, 2000)
                    THEN <<"Custo de pedagios alto - considere rotas alternativas">>
                    ELSE <<>>
    IN  <<"Monitore regularmente os custos de combustivel",
          "Mantenha o veiculo em bom estado para reduzir custos">>
        \o faixa \o longa \o terceirizar \o pedagios

\* Recommendations whose "elevated" bucket starts at 15 itself.
generate_recommendations_desde_15(custo_total, valor_mercadorias, percentual_custo, rota_info) ==
    LET faixa == IF percentual_custo >= 15 * DezMil
                 THEN <<"Custo de transporte elevado (>15% do valor das mercadorias)",
                        "Considere consolidar mais entregas na mesma rota">>
                 ELSE IF percentual_custo < 5 * DezMil
                 THEN <<"Excelente eficiencia de custos (<5% do valor das mercadorias)">>
                 ELSE <<"Custos dentro da media esperada (5-15%)">>
        longa == IF rota_info.resumo.tempo_total_dias > 3 * DezMil
                 THEN <<"Rota longa (>3 dias) - avalie logistica de pernoite">>
                 ELSE <<>>
        terceirizar == IF custo_total > 5000 * DezMil
                       THEN <<"Avalie a possibilidade de terceirizacao do transporte">>
                       ELSE <<>>
        pedagogios_total == rota_info.resumo.custo_pedagogios_total
        pedagios == IF pedagogios_total > MulDM(custo_total, 2000)
                    THEN <<"Custo de pedagios alto - considere rotas alternativas">>
                    ELSE <<>>
    IN  faixa \o longa \o terceirizar \o pedagios
        \o <<"Monitore regularmente os custos de combustivel",
             "Mantenha o veiculo em bom estado para reduzir custos">>

generate_recommendations(custo_total, valor_mercadorias, percentual_custo, rota_info) ==
    LET faixa == IF percentual_custo > 15 * DezMil
                 THEN <<"Custo de transporte elevado (>15% do valor das mercadorias)",
                        "Considere consolidar mais entregas na mesma rota">>
                 ELSE IF percentual_custo < 5 * DezMil
                 THEN <<"Excelente eficiencia de custos (<5% do valor das mercadorias)">>
                 ELSE <<"Custos dentro da media esperada (5-15%)">>
        longa == IF rota_info.resumo.tempo_total_dias > 3 * DezMil
                 THEN <<"Rota longa (>3 dias) - avalie logistica de pernoite">>
                 ELSE <<>>
        terceirizar == IF custo_total > 5000 * DezMil
                       THEN <<"Avalie a possibilidade de terceirizacao do transporte">>
                       ELSE <<>>
        pedagogios_total == rota_info.resumo.custo_pedagogios_total
        pedagios == IF pedagogios_total > MulDM(custo_total, 2000)
                    THEN <<"Custo de pedagios alto - considere rotas alternativas">>
                    ELSE <<>>
    IN  faixa \o longa \o terceirizar \o pedagios
        \o <<"Monitore regularmente os custos de combustivel",
             "Mantenha o veiculo em bom estado para reduzir custos">>

\* (a / c) * b for amounts at 10^-4, the quotient kept exact until the end:
\* floor(a * b / c).
VezesSobre(a, b, c) ==
    LET q == a \div c
        r == a % c
        b1 == b \div 100
        b0 == b % 100
        x == r * b1
    IN  q * b + (x \div c) * 100 + (((x % c) * 100 + r * b0) \div c)

\* A division by zero that yields a value instead of raising.
Infinito == [resumo_custos |-> [custo_por_entrega |-> "inf", custo_por_km |-> "inf"]]

ZeroDivisionError == [excecao |-> "ZeroDivisionError"]

\* A ratio left as a fraction of the cargo value.
fracao_do_custo(custo_total, valor_total_mercadorias) ==
    IF valor_total_mercadorias > 0
    THEN DivEscala(custo_total, valor_total_mercadorias, 4)
    ELSE 0

\* A ratio that takes the transport of a cargo worth nothing to cost the
\* whole of it.
percentual_cheio_sem_valor(custo_total, valor_total_mercadorias) ==
    IF valor_total_mercadorias > 0
    THEN DivEscala(custo_total, valor_total_mercadorias, 6)
    ELSE 100 * DezMil

\* Line 580: (custo_total / valor_total_mercadorias) * 100 if the value is
\* positive, else 0.
percentual_do_custo(custo_total, valor_total_mercadorias) ==
    IF valor_total_mercadorias > 0
    THEN DivEscala(custo_total, valor_total_mercadorias, 6)
    ELSE 0

calculate_route_costs(rota_info, consumo_medio, preco_combustivel, valor_hora_motorista) ==
    LET resumo_rota == rota_info.resumo
        litros_necessarios == DivDM(resumo_rota.distancia_total_km, consumo_medio)
        custo_combustivel == VezesSobre(resumo_rota.distancia_total_km,
                                        preco_combustivel, consumo_medio)
        custo_pedagio == resumo_rota.custo_pedagogios_total
        custo_desgaste == MulDM(resumo_rota.distancia_total_km, 4500)
        custo_motorista == MulDM(resumo_rota.tempo_total_horas, valor_hora_motorista)
        custo_seguro == resumo_rota.tempo_total_dias * 50
        custo_entregas == resumo_rota.total_entregas * 25 * DezMil
        custo_alimentacao == resumo_rota.tempo_total_dias * 80
        custo_pernoite == Max(0, resumo_rota.tempo_total_dias - DezMil) * 150
        custo_total == custo_combustivel + custo_pedagio + custo_desgaste
                       + custo_motorista + custo_seguro + custo_entregas
                       + custo_alimentacao + custo_pernoite
    IN  IF resumo_rota.total_entregas = 0 THEN ZeroDivisionError
        ELSE IF resumo_rota.distancia_total_km = 0 THEN ZeroDivisionError
        ELSE
        LET custo_por_entrega == custo_total \div resumo_rota.total_entregas
            custo_por_km == DivDM(custo_total, resumo_rota.distancia_total_km)
            valor_total_mercadorias ==
                sum([k \in 1..Len(rota_info.rotas) |->
                        rota_info.rotas[k].valor_total_entregas])
            percentual_custo == percentual_do_custo(custo_total,
                                                    valor_total_mercadorias)
        IN  [detalhamento_custos |->
                [combustivel |-> round2(custo_combustivel),
                 pedagio |-> round2(custo_pedagio),
                 desgaste_veiculo |-> round2(custo_desgaste),
                 motorista |-> round2(custo_motorista),
                 seguro |-> round2(custo_seguro),
                 taxa_entregas |-> round2(custo_entregas),
                 alimentacao |-> round2(custo_alimentacao),
                 pernoite |-> round2(custo_pernoite)],
             parametros_utilizados |->
                [consumo_medio_km_l |-> consumo_medio,
                 preco_combustivel_litro |-> preco_combustivel,
                 valor_hora_motorista |-> valor_hora_motorista,
                 litros_necessarios |-> round2(litros_necessarios)],
             resumo_custos |->
                [custo_total |-> round2(custo_total),
                 custo_por_entrega |-> round2(custo_por_entrega),
                 custo_por_km |-> round2(custo_por_km),
                 valor_mercadorias |-> round2(valor_total_mercadorias),
                 percentual_custo |-> round2(percentual_custo)],
             recomendacoes |->
                generate_recommendations(custo_total, valor_total_mercadorias,
                                         percentual_custo, rota_info)]

(***************************************************************************)
(* The inputs: the uploaded batch, the credentials, the answers of the     *)
(* external services                                                       *)
(***************************************************************************)
MaxDocs == 3

SaoPaulo == [lat |-> -2355, lon |-> -4663]
RioDeJaneiro == [lat |-> -2290, lon |-> -4317]
RioZonaOeste == [lat |-> -2291, lon |-> -4320]
Campinas == [lat |-> -2291, lon |-> -4706]

\* The FiscalDocuments the batch is drawn from (the fields the core reads).
\* 1 and 2 share a destination key but were geocoded to different points,
\* 3 declares no value, 4 goes to the same city as 3 but could not be
\* geocoded, 5 is delivered at the origin.
Catalogo ==
    << [numero |-> "101", cidade |-> "Rio de Janeiro", uf |-> "RJ",
        coordenadas |-> RioDeJaneiro, valor_total |-> 6000 * DezMil,
        peso_total |-> 300 * DezMil],
       [numero |-> "102", cidade |-> "Rio de Janeiro", uf |-> "RJ",
        coordenadas |-> RioZonaOeste, valor_total |-> 4000 * DezMil,
        peso_total |-> 200 * DezMil],
       [numero |-> "103", cidade |-> "Campinas", uf |-> "SP",
        coordenadas |-> Campinas, valor_total |-> 0, peso_total |-> 0],
       [numero |-> "104", cidade |-> "Campinas", uf |-> "SP",
        coordenadas |-> None, valor_total |-> 900 * DezMil,
        peso_total |-> 50 * DezMil],
       [numero |-> "105", cidade |-> "Sao Paulo", uf |-> "SP",
        coordenadas |-> SaoPaulo, valor_total |-> 15005000,
        peso_total |-> 805000] >>

Range(f) == {f[k] : k \in DOMAIN f}

\* The batches: 1..MaxDocs distinct documents of the catalogue, in any order.
Lotes ==
    {[k \in 1..Len(idx) |-> Catalogo[idx[k]]] :
        idx \in {q \in UNION {[1..n -> DOMAIN Catalogo] : n \in 1..MaxDocs} :
                    Cardinality(Range(q)) = Len(q)}}

endereco_origem == "Av. Brg. Faria Lima, 6363 - Sao Jose do Rio Preto - SP"

\* What the geocoder may answer for the origin address.
RespostasGeocoder == {SaoPaulo, None}

Http(status, corpo) == [excecao |-> FALSE, status_code |-> status, json |-> corpo]
Timeout == [excecao |-> TRUE, status_code |-> 0, json |-> <<>>]

\* What the routing service may answer to a directions request.
TrechoOk == Http(200, [routes |-> <<[summary |-> [distance |-> 431257,
                                                   duration |-> 19836],
                                      geometry |-> "polyline"]>>])
RespostasTrecho ==
    {TrechoOk,
     Http(403, [error |-> "forbidden"]),
     Timeout,
     Http(200, [routes |-> <<>>]),
     Http(200, [routes |-> <<[geometry |-> "polyline"]>>])}

\* What it may answer to an optimization request.
RespostasOtimizacao ==
    {Http(200, [code |-> 0, routes |-> <<[vehicle |-> 1, steps |-> <<2, 1, 3>>]>>]),
     Http(200, <<>>),
     Http(500, [error |-> "internal"]),
     Timeout}

\* The vehicle parameters of the number inputs (km/l, price per litre,
\* driver's hourly rate).
ParametrosVeiculo ==
    {[consumo_medio |-> 35000, preco_combustivel |-> 62000,
      valor_hora_motorista |-> 150000],
     [consumo_medio |-> 83000, preco_combustivel |-> 59900,
      valor_hora_motorista |-> 320000]}

(***************************************************************************)
(* State                                                                   *)
(***************************************************************************)
VARIABLES
    documentos,              \* st.session_state.documentos_processados
    openroute_key,           \* OPENROUTESERVICE_API_KEY
    tollguru_key,            \* TOLLGURU_API_KEY
    pc,                      \* where the handler of "Calcular" stands
    segunda_rodada,          \* the handler runs for the second time
    servicos,                \* what the geocoder and the routing service
                             \* answered in the first run
    anterior,                \* the plan the first run returned
    resposta,                \* the HTTP response RouteService holds
    chamadas,                \* the service calls of this run, in order
    erros,                   \* st.error messages and exceptions of this run
    \* locals of RoutingAgent.calculate_optimized_route
    origem_coords, entregas_por_local, coordenadas_destinos,
    rota_otimizada_api, rotas_calculadas, distancia_total, tempo_total,
    custo_pedagogios_total, ponto_anterior, nome_anterior,
    \* locals of main
    rota_info, custos_info,
    \* a call of one function on its own: its arguments, what it returned
    args, ret,
    \* the browser session
    uploaded_files,          \* what st.file_uploader returns
    session_state,           \* st.session_state but for documentos_processados
    evento,                  \* what the user did to start this script run
    tela                     \* what the latest script run rendered

entradas == <<documentos, openroute_key, tollguru_key>>
locais == <<origem_coords, entregas_por_local, coordenadas_destinos,
            rota_otimizada_api, rotas_calculadas, distancia_total, tempo_total,
            custo_pedagogios_total, ponto_anterior, nome_anterior>>
direta == <<args, ret>>
sessao == <<uploaded_files, session_state, evento, tela>>
vars == <<entradas, pc, segunda_rodada, servicos, anterior, resposta, chamadas,
          erros, locais, rota_info, custos_info, direta, sessao>>

\* A frame whose locals are not bound yet.
LocaisNovos ==
    /\ origem_coords = None
    /\ entregas_por_local = <<>>
    /\ coordenadas_destinos = <<>>
    /\ rota_otimizada_api = None
    /\ rotas_calculadas = <<>>
    /\ distancia_total = 0
    /\ tempo_total = 0
    /\ custo_pedagogios_total = 0
    /\ ponto_anterior = None
    /\ nome_anterior = ""
    /\ rota_info = None
    /\ custos_info = None

\* st.session_state is the function from the keys it holds to their values;
\* after st.session_state.clear() it holds none.
SessaoVazia == [k \in {} |-> None]

\* Nothing is rendered.
TelaVazia == [calcular |-> FALSE, resultados |-> None, mapa |-> None]

\* The browser session is left out: the handler of "Calcular" is followed
\* on its own.
SemSessao ==
    /\ uploaded_files = <<>>
    /\ session_state = SessaoVazia
    /\ evento = "calcular"
    /\ tela = TelaVazia

Init ==
    /\ SemSessao
    /\ documentos \in Lotes
    /\ openroute_key \in {"", "chave-ors"}
    /\ tollguru_key \in {"", "chave-tollguru"}
    /\ pc = "inicio"
    /\ segunda_rodada = FALSE
    /\ servicos = [origem |-> None, otimizacao |-> None, trechos |-> <<>>]
    /\ anterior = None
    /\ resposta = None
    /\ chamadas = <<>>
    /\ erros = <<>>
    /\ LocaisNovos
    /\ args = None
    /\ ret = None

(***************************************************************************)
(* RoutingAgent.calculate_optimized_route, step by step                    *)
(***************************************************************************)
Chamada(servico, requisicao) == [servico |-> servico, requisicao |-> requisicao]

\* A run that answers an unresolved origin with an empty plan.
GeocodificarOrigem_plano_vazio ==
    /\ pc = "inicio"
    /\ \E r \in RespostasGeocoder :
         /\ segunda_rodada => r = servicos.origem
         /\ origem_coords' = r
         /\ servicos' = [servicos EXCEPT !.origem = r]
         /\ chamadas' = Append(chamadas, Chamada("geocode", TRUE))
         /\ IF ~bool(r)
            THEN /\ rota_info' = [rotas |-> <<>>, origem_coordenadas |-> r,
                                  resumo |-> [total_cidades |-> 0,
                                              total_entregas |-> 0,
                                              distancia_total_km |-> 0,
                                              tempo_total_horas |-> 0,
                                              tempo_total_dias |-> 0,
                                              custo_pedagogios_total |-> 0,
                                              api_utilizada |-> FALSE]]
                 /\ pc' = "retorno"
                 /\ UNCHANGED erros
            ELSE /\ pc' = "agrupar"
                 /\ UNCHANGED <<erros, rota_info>>
    /\ UNCHANGED <<direta, sessao, entradas, segunda_rodada, anterior, resposta,
                   entregas_por_local, coordenadas_destinos, rota_otimizada_api,
                   rotas_calculadas, distancia_total, tempo_total,
                   custo_pedagogios_total, ponto_anterior, nome_anterior,
                   custos_info>>

\* Lines 427-434: the origin is geocoded; without it the run returns None.
GeocodificarOrigem ==
    /\ pc = "inicio"
    /\ \E r \in RespostasGeocoder :
         /\ segunda_rodada => r = servicos.origem
         /\ origem_coords' = r
         /\ servicos' = [servicos EXCEPT !.origem = r]
         /\ chamadas' = Append(chamadas, Chamada("geocode", TRUE))
         /\ IF ~bool(r)
            THEN /\ erros' = Append(erros,
                        "Nao foi possivel geocodificar o endereco de origem")
                 /\ rota_info' = None
                 /\ pc' = "retorno"
            ELSE /\ pc' = "agrupar"
                 /\ UNCHANGED <<erros, rota_info>>
    /\ UNCHANGED <<direta, sessao, entradas, segunda_rodada, anterior, resposta,
                   entregas_por_local, coordenadas_destinos, rota_otimizada_api,
                   rotas_calculadas, distancia_total, tempo_total,
                   custo_pedagogios_total, ponto_anterior, nome_anterior,
                   custos_info>>

\* The Python dict entregas_por_local is the sequence of its items in
\* insertion order, each [chave, documentos, coordenadas].
Indice(entregas, chave) ==
    IF \E k \in DOMAIN entregas : entregas[k].chave = chave
    THEN CHOOSE k \in DOMAIN entregas : entregas[k].chave = chave
    ELSE 0

chave_local(doc) == doc.cidade \o ", " \o doc.uf

\* A grouping that puts a new destination before the ones met so far.
passo_no_inicio(acc, doc) ==
    IF bool(doc.coordenadas)
    THEN LET entregas == acc.entregas_por_local
             k == Indice(entregas, chave_local(doc))
             com_chave == IF k = 0
                          THEN <<[chave |-> chave_local(doc),
                                  documentos |-> <<>>,
                                  coordenadas |-> doc.coordenadas]>> \o entregas
                          ELSE entregas
             j == Indice(com_chave, chave_local(doc))
         IN  [entregas_por_local |->
                 [com_chave EXCEPT ![j].documentos = Append(@, doc)],
              coordenadas_destinos |->
                 IF doc.coordenadas \in Range(acc.coordenadas_destinos)
                 THEN acc.coordenadas_destinos
                 ELSE Append(acc.coordenadas_destinos, doc.coordenadas)]
    ELSE acc

\* A grouping that lets a document without coordinates join the group its
\* key already has.
passo_sem_filtro(acc, doc) ==
    LET entregas == acc.entregas_por_local
        k == Indice(entregas, chave_local(doc))
    IN  IF bool(doc.coordenadas)
        THEN LET com_chave == IF k = 0
                              THEN Append(entregas,
                                          [chave |-> chave_local(doc),
                                           documentos |-> <<>>,
                                           coordenadas |-> doc.coordenadas])
                              ELSE entregas
                 j == Indice(com_chave, chave_local(doc))
             IN  [entregas_por_local |->
                     [com_chave EXCEPT ![j].documentos = Append(@, doc)],
                  coordenadas_destinos |->
                     IF doc.coordenadas \in Range(acc.coordenadas_destinos)
                     THEN acc.coordenadas_destinos
                     ELSE Append(acc.coordenadas_destinos, doc.coordenadas)]
        ELSE IF k # 0
        THEN [acc EXCEPT !.entregas_por_local[k].documentos = Append(@, doc)]
        ELSE acc

\* A grouping that opens a group for every located document.
passo_um_grupo_por_documento(acc, doc) ==
    IF bool(doc.coordenadas)
    THEN [entregas_por_local |->
             Append(acc.entregas_por_local,
                    [chave |-> chave_local(doc), documentos |-> <<doc>>,
                     coordenadas |-> doc.coordenadas]),
          coordenadas_destinos |->
             IF doc.coordenadas \in Range(acc.coordenadas_destinos)
             THEN acc.coordenadas_destinos
             ELSE Append(acc.coordenadas_destinos, doc.coordenadas)]
    ELSE acc

\* A grouping that seats a group at the coordinates of its latest document.
passo_ultima_coordenada(acc, doc) ==
    IF bool(doc.coordenadas)
    THEN LET entregas == acc.entregas_por_local
             k == Indice(entregas, chave_local(doc))
             com_chave == IF k = 0
                          THEN Append(entregas,
                                      [chave |-> chave_local(doc),
                                       documentos |-> <<>>,
                                       coordenadas |-> doc.coordenadas])
                          ELSE entregas
             j == Indice(com_chave, chave_local(doc))
         IN  [entregas_por_local |->
                 [com_chave EXCEPT ![j].documentos = Append(@, doc),
                                   ![j].coordenadas = doc.coordenadas],
              coordenadas_destinos |->
                 IF doc.coordenadas \in Range(acc.coordenadas_destinos)
                 THEN acc.coordenadas_destinos
                 ELSE Append(acc.coordenadas_destinos, doc.coordenadas)]
    ELSE acc

\* Lines 441-451: the loop body, on the dict and the coordinate list so far.
passo(acc, doc) ==
    IF bool(doc.coordenadas)
    THEN LET entregas == acc.entregas_por_local
             k == Indice(entregas, chave_local(doc))
             com_chave == IF k = 0
                          THEN Append(entregas,
                                      [chave |-> chave_local(doc),
                                       documentos |-> <<>>,
                                       coordenadas |-> doc.coordenadas])
                          ELSE entregas
             j == Indice(com_chave, chave_local(doc))
         IN  [entregas_por_local |->
                 [com_chave EXCEPT ![j].documentos = Append(@, doc)],
              coordenadas_destinos |->
                 IF doc.coordenadas \in Range(acc.coordenadas_destinos)
                 THEN acc.coordenadas_destinos
                 ELSE Append(acc.coordenadas_destinos, doc.coordenadas)]
    ELSE acc

\* Lines 440-451: one pass over the documents, in their order.
RECURSIVE agrupar(_, _)
agrupar(docs, acc) ==
    IF docs = <<>> THEN acc ELSE agrupar(Tail(docs), passo(acc, Head(docs)))

\* Lines 436-451.
Agrupar ==
    /\ pc = "agrupar"
    /\ LET g == agrupar(documentos, [entregas_por_local |-> <<>>,
                                     coordenadas_destinos |-> <<>>]) IN
         /\ entregas_por_local' = g.entregas_por_local
         /\ coordenadas_destinos' = g.coordenadas_destinos
    /\ pc' = "otimizar"
    /\ UNCHANGED <<direta, sessao, entradas, segunda_rodada, servicos, anterior, resposta,
                   chamadas, erros, origem_coords, rota_otimizada_api,
                   rotas_calculadas, distancia_total, tempo_total,
                   custo_pedagogios_total, ponto_anterior, nome_anterior,
                   rota_info, custos_info>>

\* A second run that sets out from where the first run ended.
Otimizar_de_onde_parou ==
    /\ pc = "otimizar"
    /\ \E response \in IF openroute_key = "" THEN {None} ELSE RespostasOtimizacao :
         LET resultado == RouteService_calculate_optimized_route(
                              openroute_key, origem_coords, coordenadas_destinos,
                              response)
         IN  /\ resposta' = response
             /\ rota_otimizada_api' = resultado
             /\ servicos' = IF segunda_rodada THEN servicos
                            ELSE [servicos EXCEPT !.otimizacao = resultado]
    /\ chamadas' = Append(chamadas, Chamada("optimization", openroute_key # ""))
    /\ rotas_calculadas' = <<>>
    /\ distancia_total' = 0
    /\ tempo_total' = 0
    /\ custo_pedagogios_total' = 0
    /\ ponto_anterior' = origem_coords
    /\ nome_anterior' = IF bool(anterior) /\ anterior.rotas # <<>>
                        THEN anterior.rotas[Len(anterior.rotas)].destino
                        ELSE endereco_origem
    /\ pc' = "trechos"
    /\ UNCHANGED <<direta, sessao, entradas, segunda_rodada, anterior, erros,
                   origem_coords, entregas_por_local, coordenadas_destinos,
                   rota_info, custos_info>>

\* Lines 453-467: the batch optimization request, then the loop's variables.
Otimizar ==
    /\ pc = "otimizar"
    /\ \E response \in IF openroute_key = "" THEN {None} ELSE RespostasOtimizacao :
         LET resultado == RouteService_calculate_optimized_route(
                              openroute_key, origem_coords, coordenadas_destinos,
                              response)
         IN  /\ resposta' = response
             /\ rota_otimizada_api' = resultado
             /\ servicos' = IF segunda_rodada THEN servicos
                            ELSE [servicos EXCEPT !.otimizacao = resultado]
    /\ chamadas' = Append(chamadas, Chamada("optimization", openroute_key # ""))
    /\ rotas_calculadas' = <<>>
    /\ distancia_total' = 0
    /\ tempo_total' = 0
    /\ custo_pedagogios_total' = 0
    /\ ponto_anterior' = origem_coords
    /\ nome_anterior' = endereco_origem
    /\ pc' = "trechos"
    /\ UNCHANGED <<direta, sessao, entradas, segunda_rodada, anterior, erros,
                   origem_coords, entregas_por_local, coordenadas_destinos,
                   rota_info, custos_info>>

\* The coordinates that occur in a run.
Pontos == ({Catalogo[k].coordenadas : k \in DOMAIN Catalogo} \cup RespostasGeocoder)
          \ {None}

\* The two providers' values over these coordinates, each computed once by
\* its definition above.
Haversine ==
    [c1 \in Pontos, c2 \in Pontos |-> calculate_haversine_distance(c1, c2, FALSE)]
Pedagios == [key \in {"", "chave-tollguru"}, c1 \in Pontos, c2 \in Pontos |->
                calculate_route_tolls(key, c1, c2)]

\* A fallback that assumes 80 km/h.
distancia_tempo_a_80(rota_info_api, ponto, coords_destino) ==
    IF bool(rota_info_api)
    THEN [distancia |-> rota_info_api.distancia_km,
          tempo |-> rota_info_api.tempo_horas]
    ELSE LET distancia == Haversine[ponto, coords_destino]
         IN  [distancia |-> distancia, tempo |-> distancia \div 80]

\* A fallback that takes the straight line as driven only when the batch
\* optimization succeeded, and adds a fifth to it otherwise.
distancia_tempo_otimizada(rota_info_api, ponto, coords_destino) ==
    IF bool(rota_info_api)
    THEN [distancia |-> rota_info_api.distancia_km,
          tempo |-> rota_info_api.tempo_horas]
    ELSE LET reta == Haversine[ponto, coords_destino]
             distancia == IF bool(rota_otimizada_api) THEN reta
                          ELSE reta + reta \div 5
         IN  [distancia |-> distancia, tempo |-> distancia \div 60]

\* Lines 478-483: the leg's distance and time, from the service's answer or
\* from the haversine distance at 60 km/h.
distancia_tempo(rota_info_api, ponto, coords_destino) ==
    IF bool(rota_info_api)
    THEN [distancia |-> rota_info_api.distancia_km,
          tempo |-> rota_info_api.tempo_horas]
    ELSE LET distancia == Haversine[ponto, coords_destino]
         IN  [distancia |-> distancia, tempo |-> distancia \div 60]

\* A leg record that numbers the legs from 0.
rota_desde_zero(i, nome, local, info_local, dt, pedagogios_info) ==
    [sequencia |-> i,
     origem |-> nome,
     destino |-> local,
     coordenadas_destino |-> info_local.coordenadas,
     distancia_km |-> round2(dt.distancia),
     tempo_estimado_horas |-> round2(dt.tempo),
     entregas |-> Len(info_local.documentos),
     documentos |-> [k \in 1..Len(info_local.documentos) |->
                        info_local.documentos[k].numero],
     valor_total_entregas |-> sum([k \in 1..Len(info_local.documentos) |->
                                     info_local.documentos[k].valor_total]),
     peso_total_entregas |-> sum([k \in 1..Len(info_local.documentos) |->
                                    info_local.documentos[k].peso_total]),
     pedagios |-> pedagogios_info]

\* Lines 490-502: the leg's record.
rota(i, nome, local, info_local, dt, pedagogios_info) ==
    [sequencia |-> i + 1,
     origem |-> nome,
     destino |-> local,
     coordenadas_destino |-> info_local.coordenadas,
     distancia_km |-> round2(dt.distancia),
     tempo_estimado_horas |-> round2(dt.tempo),
     entregas |-> Len(info_local.documentos),
     documentos |-> [k \in 1..Len(info_local.documentos) |->
                        info_local.documentos[k].numero],
     valor_total_entregas |-> sum([k \in 1..Len(info_local.documentos) |->
                                     info_local.documentos[k].valor_total]),
     peso_total_entregas |-> sum([k \in 1..Len(info_local.documentos) |->
                                    info_local.documentos[k].peso_total]),
     pedagios |-> pedagogios_info]

\* An iteration that asks for the leg a second time when the first request
\* failed.
Trecho_com_nova_tentativa ==
    /\ pc = "trechos"
    /\ Len(rotas_calculadas) < Len(entregas_por_local)
    /\ LET i == Len(rotas_calculadas)
           info_local == entregas_por_local[i + 1]
           local == info_local.chave
           coords_destino == info_local.coordenadas
       IN  \E response \in IF openroute_key = "" THEN {None} ELSE RespostasTrecho :
             LET rota_info_api == calculate_distance_time(
                                      openroute_key, ponto_anterior,
                                      coords_destino, response)
                 dt == distancia_tempo(rota_info_api, ponto_anterior, coords_destino)
                 pedagogios_info == Pedagios[tollguru_key, ponto_anterior,
                                             coords_destino]
             IN  /\ segunda_rodada => rota_info_api = servicos.trechos[i + 1]
                 /\ resposta' = response
                 /\ servicos' = IF segunda_rodada THEN servicos
                                ELSE [servicos EXCEPT
                                        !.trechos = Append(@, rota_info_api)]
                 /\ chamadas' = chamadas
                        \o <<Chamada("directions", openroute_key # "")>>
                        \o (IF openroute_key # "" /\ ~bool(rota_info_api)
                            THEN <<Chamada("directions", TRUE)>> ELSE <<>>)
                        \o <<Chamada("tolls", FALSE)>>
                 /\ rotas_calculadas' =
                        Append(rotas_calculadas,
                               rota(i, nome_anterior, local, info_local, dt,
                                    pedagogios_info))
                 /\ distancia_total' = distancia_total + dt.distancia
                 /\ tempo_total' = tempo_total + dt.tempo
                 /\ custo_pedagogios_total' =
                        custo_pedagogios_total + pedagogios_info.valor_total
                 /\ ponto_anterior' = coords_destino
                 /\ nome_anterior' = local
    /\ UNCHANGED <<direta, sessao, entradas, pc, segunda_rodada, anterior, erros, origem_coords,
                   entregas_por_local, coordenadas_destinos, rota_otimizada_api,
                   rota_info, custos_info>>

\* Lines 469-510: one iteration of the loop over locais_ordenados.
Trecho ==
    /\ pc = "trechos"
    /\ Len(rotas_calculadas) < Len(entregas_por_local)
    /\ LET i == Len(rotas_calculadas)
           info_local == entregas_por_local[i + 1]
           local == info_local.chave
           coords_destino == info_local.coordenadas
       IN  \E response \in IF openroute_key = "" THEN {None} ELSE RespostasTrecho :
             LET rota_info_api == calculate_distance_time(
                                      openroute_key, ponto_anterior,
                                      coords_destino, response)
                 dt == distancia_tempo(rota_info_api, ponto_anterior, coords_destino)
                 pedagogios_info == Pedagios[tollguru_key, ponto_anterior,
                                             coords_destino]
             IN  /\ segunda_rodada => rota_info_api = servicos.trechos[i + 1]
                 /\ resposta' = response
                 /\ servicos' = IF segunda_rodada THEN servicos
                                ELSE [servicos EXCEPT
                                        !.trechos = Append(@, rota_info_api)]
                 /\ chamadas' = chamadas
                        \o <<Chamada("directions", openroute_key # ""),
                             Chamada("tolls", FALSE)>>
                 /\ rotas_calculadas' =
                        Append(rotas_calculadas,
                               rota(i, nome_anterior, local, info_local, dt,
                                    pedagogios_info))
                 /\ distancia_total' = distancia_total + dt.distancia
                 /\ tempo_total' = tempo_total + dt.tempo
                 /\ custo_pedagogios_total' =
                        custo_pedagogios_total + pedagogios_info.valor_total
                 /\ ponto_anterior' = coords_destino
                 /\ nome_anterior' = local
    /\ UNCHANGED <<direta, sessao, entradas, pc, segunda_rodada, anterior, erros, origem_coords,
                   entregas_por_local, coordenadas_destinos, rota_otimizada_api,
                   rota_info, custos_info>>

\* A run that gives no plan when there is a credential and the batch
\* optimization failed.
plano_so_otimizado ==
    IF openroute_key # "" /\ ~bool(rota_otimizada_api) THEN None
    ELSE
    [rotas |-> rotas_calculadas,
     origem_coordenadas |-> origem_coords,
     resumo |->
        [total_cidades |-> Len(entregas_por_local),
         total_entregas |-> sum([k \in 1..Len(entregas_por_local) |->
                                   Len(entregas_por_local[k].documentos)]),
         distancia_total_km |-> round2(distancia_total),
         tempo_total_horas |-> round2(tempo_total),
         tempo_total_dias |-> round1(tempo_total \div 8),
         custo_pedagogios_total |-> round2(custo_pedagogios_total),
         api_utilizada |-> bool(rota_otimizada_api)]]

\* A plan whose day count is the unrounded accumulated time over 8.
plano_dias_exatos ==
    [rotas |-> rotas_calculadas,
     origem_coordenadas |-> origem_coords,
     resumo |->
        [total_cidades |-> Len(entregas_por_local),
         total_entregas |-> sum([k \in 1..Len(entregas_por_local) |->
                                   Len(entregas_por_local[k].documentos)]),
         distancia_total_km |-> round2(distancia_total),
         tempo_total_horas |-> round2(tempo_total),
         tempo_total_dias |-> tempo_total \div 8,
         custo_pedagogios_total |-> round2(custo_pedagogios_total),
         api_utilizada |-> bool(rota_otimizada_api)]]

\* Lines 512-524: the plan.
plano ==
    [rotas |-> rotas_calculadas,
     origem_coordenadas |-> origem_coords,
     resumo |->
        [total_cidades |-> Len(entregas_por_local),
         total_entregas |-> sum([k \in 1..Len(entregas_por_local) |->
                                   Len(entregas_por_local[k].documentos)]),
         distancia_total_km |-> round2(distancia_total),
         tempo_total_horas |-> round2(tempo_total),
         tempo_total_dias |-> round1(tempo_total \div 8),
         custo_pedagogios_total |-> round2(custo_pedagogios_total),
         api_utilizada |-> bool(rota_otimizada_api)]]

Retornar ==
    /\ pc = "trechos"
    /\ Len(rotas_calculadas) = Len(entregas_por_local)
    /\ rota_info' = plano
    /\ resposta' = None
    /\ pc' = "retorno"
    /\ UNCHANGED <<direta, sessao, entradas, segunda_rodada, servicos, anterior, chamadas, erros,
                   locais, custos_info>>

(***************************************************************************)
(* main: the handler of the "Calcular Rota e Custos" button, lines 908-930 *)
(***************************************************************************)
\* Lines 916-917: no plan.
Falha ==
    /\ pc = "retorno"
    /\ ~bool(rota_info)
    /\ erros' = Append(erros, "Nao foi possivel calcular a rota")
    /\ pc' = "fim"
    /\ UNCHANGED <<direta, sessao, entradas, segunda_rodada, servicos, anterior, resposta,
                   chamadas, locais, rota_info, custos_info>>

\* An estimator that empties the plan's list of legs as it sums their values.
Custos_consumindo_plano ==
    /\ pc = "retorno"
    /\ bool(rota_info)
    /\ \E p \in ParametrosVeiculo :
         LET r == calculate_route_costs(rota_info, p.consumo_medio,
                                        p.preco_combustivel, p.valor_hora_motorista)
         IN  IF "excecao" \in DOMAIN r
             THEN /\ erros' = Append(erros, r.excecao)
                  /\ UNCHANGED custos_info
             ELSE /\ custos_info' = r
                  /\ UNCHANGED erros
    /\ chamadas' = Append(chamadas, Chamada("costs", FALSE))
    /\ pc' = "fim"
    /\ rota_info' = [rota_info EXCEPT !.rotas = <<>>]
    /\ UNCHANGED <<direta, sessao, entradas, segunda_rodada, servicos, anterior, resposta,
                   locais>>

\* Lines 918-925: the cost estimator is called with the number inputs; an
\* exception it raises ends the script run.
Custos ==
    /\ pc = "retorno"
    /\ bool(rota_info)
    /\ \E p \in ParametrosVeiculo :
         LET r == calculate_route_costs(rota_info, p.consumo_medio,
                                        p.preco_combustivel, p.valor_hora_motorista)
         IN  IF "excecao" \in DOMAIN r
             THEN /\ erros' = Append(erros, r.excecao)
                  /\ UNCHANGED custos_info
             ELSE /\ custos_info' = r
                  /\ UNCHANGED erros
    /\ chamadas' = Append(chamadas, Chamada("costs", FALSE))
    /\ pc' = "fim"
    /\ UNCHANGED <<direta, sessao, entradas, segunda_rodada, servicos, anterior, resposta,
                   locais, rota_info>>

\* The button is pressed again on the same batch: the script runs again from
\* its first line in a new frame (lines 25-29 read the environment anew, and
\* load_dotenv adds a credential that .env has gained but removes none), and
\* the services answer the second run as they answered the first, but for
\* the optimization request.
Recalcular ==
    /\ pc = "fim"
    /\ ~segunda_rodada
    /\ segunda_rodada' = TRUE
    /\ openroute_key' \in {openroute_key, "chave-ors"}
    /\ tollguru_key' \in {tollguru_key, "chave-tollguru"}
    /\ anterior' = rota_info
    /\ pc' = "inicio"
    /\ chamadas' = <<>>
    /\ erros' = <<>>
    /\ origem_coords' = None
    /\ entregas_por_local' = <<>>
    /\ coordenadas_destinos' = <<>>
    /\ rota_otimizada_api' = None
    /\ rotas_calculadas' = <<>>
    /\ distancia_total' = 0
    /\ tempo_total' = 0
    /\ custo_pedagogios_total' = 0
    /\ ponto_anterior' = None
    /\ nome_anterior' = ""
    /\ rota_info' = None
    /\ custos_info' = None
    /\ UNCHANGED <<direta, sessao, documentos, servicos, resposta>>

Next ==
    \/ GeocodificarOrigem
    \/ Agrupar
    \/ Otimizar
    \/ Trecho
    \/ Retornar
    \/ Falha
    \/ Custos
    \/ Recalcular

Spec == Init /\ [][Next]_vars

(***************************************************************************)
(* The functions called on their own, on arguments of the caller's choice  *)
(***************************************************************************)
\* The pipeline at rest while a function is called directly.
Parado ==
    /\ SemSessao
    /\ documentos = <<>>
    /\ openroute_key = ""
    /\ tollguru_key = ""
    /\ segunda_rodada = FALSE
    /\ servicos = [origem |-> None, otimizacao |-> None, trechos |-> <<>>]
    /\ anterior = None
    /\ resposta = None
    /\ chamadas = <<>>
    /\ erros = <<>>
    /\ LocaisNovos

\* The part of a plan _generate_recommendations reads.
ResumoPara(dias, pedagogios) ==
    [resumo |-> [tempo_total_dias |-> dias, custo_pedagogios_total |-> pedagogios]]

\* Arguments of _generate_recommendations: ratios at, next to and far from
\* 5 and 15, totals at and next to 5000, day counts at and next to 3, toll
\* totals at and next to a fifth of the total.
PercentuaisDeCusto ==
    {0, 49900, 49999, 50000, 50001, 100000, 150000, 150001, 150100,
     1000000, 10000000}
ArgumentosRecomendacoes ==
    {[funcao |-> "generate_recommendations",
      custo_total |-> t, valor_mercadorias |-> 3000 * DezMil,
      percentual_custo |-> p, rota_info |-> ResumoPara(d, g)] :
        t \in {450 * DezMil, 5000 * DezMil, 5000 * DezMil + 100},
        p \in PercentuaisDeCusto,
        d \in {7000, 30000, 31000},
        g \in {0, 90 * DezMil, 90 * DezMil + 100, 1000 * DezMil,
               1000 * DezMil + 100}}

InitRecomendacoes ==
    /\ Parado
    /\ pc = "chamada"
    /\ args \in ArgumentosRecomendacoes
    /\ ret = None

Chamar_generate_recommendations ==
    /\ pc = "chamada"
    /\ args.funcao = "generate_recommendations"
    /\ ret' = generate_recommendations(args.custo_total, args.valor_mercadorias,
                                       args.percentual_custo, args.rota_info)
    /\ pc' = "retornou"
    /\ UNCHANGED <<args, sessao, entradas, segunda_rodada, servicos, anterior, resposta,
                   chamadas, erros, locais, rota_info, custos_info>>

SpecRecomendacoes == InitRecomendacoes /\ [][Chamar_generate_recommendations]_vars

\* The point opposite to c on the globe.
Antipoda(c) ==
    [lat |-> -c.lat, lon |-> IF c.lon <= 0 THEN c.lon + 18000 ELSE c.lon - 18000]

\* Arguments of _calculate_haversine_distance: the points of a run, their
\* antipodes, a point on the equator, a pole, and two opposite points at
\* latitudes 12 S and 12 N.
PontosDoGlobo ==
    Pontos \cup {Antipoda(c) : c \in Pontos}
           \cup {[lat |-> 0, lon |-> 0], [lat |-> 9000, lon |-> 0],
                 [lat |-> -1200, lon |-> -9800], [lat |-> 1200, lon |-> 8200]}
ArgumentosHaversine ==
    {[funcao |-> "calculate_haversine_distance", coord1 |-> c1, coord2 |-> c2] :
        c1 \in PontosDoGlobo, c2 \in PontosDoGlobo}

InitHaversine ==
    /\ Parado
    /\ pc = "chamada"
    /\ args \in ArgumentosHaversine
    /\ ret = None

\* The call returns a distance, or raises and returns nothing.
Chamar_calculate_haversine_distance ==
    /\ pc = "chamada"
    /\ args.funcao = "calculate_haversine_distance"
    /\ \E acima \in BOOLEAN :
         IF fora_do_dominio(haversine_a_double(args.coord1, args.coord2, acima))
         THEN ret' = None /\ erros' = <<"ValueError">>
         ELSE /\ ret' = calculate_haversine_distance(args.coord1, args.coord2,
                                                     acima)
              /\ erros' = erros
    /\ pc' = "retornou"
    /\ UNCHANGED <<args, sessao, entradas, segunda_rodada, servicos, anterior, resposta,
                   chamadas, locais, rota_info, custos_info>>

SpecHaversine == InitHaversine /\ [][Chamar_calculate_haversine_distance]_vars

\* Arguments of the grouping loop: batches of documents whose city or region
\* holds a comma, so that different (city, region) pairs spell one key.
Vitoria == [lat |-> -2032, lon |-> -4034]
VilaVelha == [lat |-> -2033, lon |-> -4029]
CatalogoComVirgulas ==
    << [numero |-> "201", cidade |-> "Vitoria", uf |-> "ES",
        coordenadas |-> Vitoria, valor_total |-> 1000 * DezMil,
        peso_total |-> 10 * DezMil],
       [numero |-> "202", cidade |-> "Vitoria, ES", uf |-> "BR",
        coordenadas |-> Vitoria, valor_total |-> 2000 * DezMil,
        peso_total |-> 20 * DezMil],
       [numero |-> "203", cidade |-> "Vitoria", uf |-> "ES, BR",
        coordenadas |-> Vitoria, valor_total |-> 3000 * DezMil,
        peso_total |-> 30 * DezMil],
       [numero |-> "204", cidade |-> "Vila Velha", uf |-> "ES",
        coordenadas |-> VilaVelha, valor_total |-> 4000 * DezMil,
        peso_total |-> 40 * DezMil],
       [numero |-> "205", cidade |-> "Vila Velha", uf |-> "ES",
        coordenadas |-> None, valor_total |-> 5000 * DezMil,
        peso_total |-> 50 * DezMil] >>
ArgumentosAgrupar ==
    {[funcao |-> "agrupar",
      documentos |-> [k \in 1..Len(idx) |-> CatalogoComVirgulas[idx[k]]]] :
        idx \in {q \in UNION {[1..n -> DOMAIN CatalogoComVirgulas] :
                                  n \in 1..MaxDocs} :
                    Cardinality(Range(q)) = Len(q)}}

InitAgrupar ==
    /\ Parado
    /\ pc = "chamada"
    /\ args \in ArgumentosAgrupar
    /\ ret = None

\* Lines 437-451 on their own: the groups, in insertion order.
Chamar_agrupar ==
    /\ pc = "chamada"
    /\ args.funcao = "agrupar"
    /\ ret' = agrupar(args.documentos, [entregas_por_local |-> <<>>,
                                        coordenadas_destinos |-> <<>>])
                  .entregas_por_local
    /\ pc' = "retornou"
    /\ UNCHANGED <<args, sessao, entradas, segunda_rodada, servicos, anterior, resposta,
                   chamadas, erros, locais, rota_info, custos_info>>

SpecAgrupar == InitAgrupar /\ [][Chamar_agrupar]_vars

(***************************************************************************)
(* main in a browser session: every user action starts a script run, which *)
(* reads and writes st.session_state                                       *)
(***************************************************************************)
\* An uploaded file and the document extract_xml_data makes of it (None:
\* the type is not identified, or the extraction fails).
Arquivo(nome, documento) == [nome |-> nome, documento |-> documento]
ArquivoRuim == Arquivo("outro.xml", None)

\* What the user may have in the uploader.
Uploads ==
    {<<>>,
     <<Arquivo("101.xml", Catalogo[1])>>,
     <<Arquivo("105.xml", Catalogo[5])>>,
     <<Arquivo("101.xml", Catalogo[1]), Arquivo("103.xml", Catalogo[3])>>,
     <<Arquivo("103.xml", Catalogo[3]), ArquivoRuim>>}

\* st.session_state.k = v
Atribuir(ss, k, v) == [x \in DOMAIN ss \cup {k} |-> IF x = k THEN v ELSE ss[x]]

\* Lines 753-758.
Inicializar(ss) ==
    LET s1 == IF "rota_calculada" \in DOMAIN ss THEN ss
              ELSE Atribuir(ss, "rota_calculada", FALSE)
        s2 == IF "rota_info" \in DOMAIN s1 THEN s1
              ELSE Atribuir(s1, "rota_info", None)
    IN  IF "custos_info" \in DOMAIN s2 THEN s2
        ELSE Atribuir(s2, "custos_info", None)

\* Lines 807-830: the documents of the files that give one, in upload order.
RECURSIVE processar(_)
processar(arquivos) ==
    IF arquivos = <<>> THEN <<>>
    ELSE (IF bool(Head(arquivos).documento)
          THEN <<Head(arquivos).documento>> ELSE <<>>)
         \o processar(Tail(arquivos))

\* Lines 654-730, 1052-1054: what the map's HTML shows of a plan: the origin
\* marker, and for every leg its marker with its popup.
criar_mapa_rota(plan) ==
    [origem |-> plan.origem_coordenadas,
     paradas |->
        [k \in 1..Len(plan.rotas) |->
            [sequencia |-> plan.rotas[k].sequencia,
             destino |-> plan.rotas[k].destino,
             coordenadas |-> plan.rotas[k].coordenadas_destino,
             entregas |-> plan.rotas[k].entregas,
             distancia_km |-> plan.rotas[k].distancia_km,
             tempo |-> round1(plan.rotas[k].tempo_estimado_horas),
             valor |-> plan.rotas[k].valor_total_entregas,
             pedagios |-> plan.rotas[k].pedagios.valor_total,
             documentos |-> plan.rotas[k].documentos]]]

InitSessao ==
    /\ uploaded_files = <<>>
    /\ session_state = SessaoVazia
    /\ evento = "abrir"
    /\ tela = TelaVazia
    /\ documentos = <<>>
    /\ openroute_key = ""
    /\ tollguru_key = ""
    /\ pc = "guarda"
    /\ segunda_rodada = FALSE
    /\ servicos = [origem |-> None, otimizacao |-> None, trechos |-> <<>>]
    /\ anterior = None
    /\ resposta = None
    /\ chamadas = <<>>
    /\ erros = <<>>
    /\ LocaisNovos
    /\ args = None
    /\ ret = None

\* A script run starts from the first line of main in a new frame.
NovaExecucao(e) ==
    /\ evento' = e
    /\ pc' = "guarda"
    /\ servicos' = [origem |-> None, otimizacao |-> None, trechos |-> <<>>]
    /\ resposta' = None
    /\ chamadas' = <<>>
    /\ erros' = <<>>
    /\ origem_coords' = None
    /\ entregas_por_local' = <<>>
    /\ coordenadas_destinos' = <<>>
    /\ rota_otimizada_api' = None
    /\ rotas_calculadas' = <<>>
    /\ distancia_total' = 0
    /\ tempo_total' = 0
    /\ custo_pedagogios_total' = 0
    /\ ponto_anterior' = None
    /\ nome_anterior' = ""
    /\ rota_info' = None
    /\ custos_info' = None
    /\ UNCHANGED <<direta, openroute_key, tollguru_key, segunda_rodada, anterior>>

\* The user adds or removes files in the uploader.
MudarUpload ==
    /\ pc = "ocioso"
    /\ uploaded_files' \in Uploads \ {uploaded_files}
    /\ NovaExecucao("upload")
    /\ UNCHANGED <<documentos, session_state, tela>>

\* The user changes an input or opens another tab.
Interagir ==
    /\ pc = "ocioso"
    /\ NovaExecucao("rerun")
    /\ UNCHANGED <<documentos, uploaded_files, session_state, tela>>

\* The user presses "Calcular Rota e Custos" (rendered by line 906).
ClicarCalcular ==
    /\ pc = "ocioso"
    /\ tela.calcular
    /\ NovaExecucao("calcular")
    /\ UNCHANGED <<documentos, uploaded_files, session_state, tela>>

\* The user presses "Recalcular Rota" (rendered by line 946).
ClicarRecalcular ==
    /\ pc = "ocioso"
    /\ bool(tela.resultados)
    /\ NovaExecucao("recalcular")
    /\ UNCHANGED <<documentos, uploaded_files, session_state, tela>>

\* The user presses "Limpar Tudo" (rendered by line 954).
ClicarLimpar ==
    /\ pc = "ocioso"
    /\ bool(tela.resultados)
    /\ NovaExecucao("limpar")
    /\ UNCHANGED <<documentos, uploaded_files, session_state, tela>>

\* Lines 752-760 and 795-906: the session's keys are initialised, the
\* documents are processed again when their number is not the number of
\* uploaded files, and the inputs and the button are rendered when there are
\* documents.  Without a file or a document the run renders nothing more.
Preparar ==
    /\ pc = "guarda"
    /\ LET ss == Inicializar(session_state)
           reprocessar == uploaded_files # <<>>
                          /\ Len(documentos) # Len(uploaded_files)
           guardados == IF reprocessar THEN <<>> ELSE documentos
           processados == IF uploaded_files # <<>> /\ guardados = <<>>
                          THEN processar(uploaded_files) ELSE guardados
       IN  /\ session_state' = IF reprocessar
                               THEN [ss EXCEPT !.rota_calculada = FALSE] ELSE ss
           /\ documentos' = processados
           /\ IF uploaded_files # <<>> /\ processados # <<>>
              THEN /\ tela' = [tela EXCEPT !.calcular = TRUE]
                   /\ pc' = IF evento = "calcular" THEN "inicio" ELSE "exibir"
              ELSE /\ tela' = TelaVazia
                   /\ pc' = "ocioso"
    /\ UNCHANGED <<direta, openroute_key, tollguru_key, uploaded_files, evento,
                   segunda_rodada, servicos, anterior, resposta, chamadas, erros,
                   locais, rota_info, custos_info>>

\* A handler that stores the plan although the estimator raised.
Interrompida_com_plano_salvo ==
    /\ pc = "fim"
    /\ bool(rota_info)
    /\ ~bool(custos_info)
    /\ session_state' = Atribuir(session_state, "rota_info", rota_info)
    /\ tela' = [tela EXCEPT !.resultados = None, !.mapa = None]
    /\ pc' = "ocioso"
    /\ UNCHANGED <<direta, entradas, uploaded_files, evento, segunda_rodada,
                   servicos, anterior, resposta, chamadas, erros, locais,
                   rota_info, custos_info>>

\* Line 920 raised: the script run ends there, with the exception on the
\* screen in place of the results.
Interrompida ==
    /\ pc = "fim"
    /\ bool(rota_info)
    /\ ~bool(custos_info)
    /\ tela' = [tela EXCEPT !.resultados = None, !.mapa = None]
    /\ pc' = "ocioso"
    /\ UNCHANGED <<direta, entradas, uploaded_files, session_state, evento,
                   segunda_rodada, servicos, anterior, resposta, chamadas, erros,
                   locais, rota_info, custos_info>>

\* A handler that stores the plan and the flag but not the report.
Salvar_sem_custos ==
    /\ pc = "fim"
    /\ bool(rota_info)
    /\ bool(custos_info)
    /\ session_state' =
          Atribuir(Atribuir(session_state, "rota_info", rota_info),
                   "rota_calculada", TRUE)
    /\ pc' = "exibir"
    /\ UNCHANGED <<direta, entradas, uploaded_files, evento, tela, segunda_rodada,
                   servicos, anterior, resposta, chamadas, erros, locais,
                   rota_info, custos_info>>

\* Lines 927-930.
Salvar ==
    /\ pc = "fim"
    /\ bool(rota_info)
    /\ bool(custos_info)
    /\ session_state' =
          Atribuir(Atribuir(Atribuir(session_state, "rota_info", rota_info),
                            "custos_info", custos_info),
                   "rota_calculada", TRUE)
    /\ pc' = "exibir"
    /\ UNCHANGED <<direta, entradas, uploaded_files, evento, tela, segunda_rodada,
                   servicos, anterior, resposta, chamadas, erros, locais,
                   rota_info, custos_info>>

\* Line 933.
Exibe(ss) == ss.rota_calculada /\ bool(ss.rota_info) /\ bool(ss.custos_info)

\* Line 1050.
GeraMapa(ss) ==
    \/ "mapa_html" \notin DOMAIN ss
    \/ IF "mapa_precisa_atualizar" \in DOMAIN ss
       THEN ss.mapa_precisa_atualizar ELSE TRUE

\* Lines 1033-1055: the session after the map tab is rendered.
ComMapa(ss) ==
    IF bool(ss.rota_info.origem_coordenadas) /\ ss.rota_info.rotas # <<>>
    THEN IF GeraMapa(ss)
         THEN Atribuir(Atribuir(ss, "mapa_html", criar_mapa_rota(ss.rota_info)),
                       "mapa_precisa_atualizar", FALSE)
         ELSE ss
    ELSE ss

\* Lines 933-1062, after the handler or without it: the results are
\* rendered when the session holds them; "Recalcular Rota" and "Limpar
\* Tudo", in the run their click starts, reset the session and rerun.
Exibir ==
    /\ pc = "exibir" \/ (pc = "fim" /\ ~bool(rota_info))
    /\ IF ~Exibe(session_state)
       THEN /\ tela' = [tela EXCEPT !.resultados = None, !.mapa = None]
            /\ pc' = "ocioso"
            /\ UNCHANGED <<session_state, documentos, evento>>
       ELSE IF evento = "recalcular"
       THEN /\ session_state' =
                  Atribuir(Atribuir(Atribuir(Atribuir(Atribuir(session_state,
                      "rota_calculada", FALSE), "rota_info", None),
                      "custos_info", None), "mapa_html", None),
                      "mapa_precisa_atualizar", TRUE)
            /\ evento' = "st.rerun"
            /\ pc' = "guarda"
            /\ UNCHANGED <<documentos, tela>>
       ELSE IF evento = "limpar"
       THEN /\ session_state' = SessaoVazia
            /\ documentos' = <<>>
            /\ evento' = "st.rerun"
            /\ pc' = "guarda"
            /\ UNCHANGED tela
       ELSE LET ss == ComMapa(session_state)
            IN  /\ session_state' = ss
                /\ tela' = [calcular |-> TRUE,
                            resultados |-> [rota_info |-> ss.rota_info,
                                            custos_info |-> ss.custos_info],
                            mapa |-> IF bool(ss.rota_info.origem_coordenadas)
                                        /\ ss.rota_info.rotas # <<>>
                                     THEN ss.mapa_html ELSE None]
                /\ pc' = "ocioso"
                /\ UNCHANGED <<documentos, evento>>
    /\ UNCHANGED <<direta, openroute_key, tollguru_key, uploaded_files,
                   segunda_rodada, servicos, anterior, resposta, chamadas, erros,
                   locais, rota_info, custos_info>>

NextSessao ==
    \/ MudarUpload
    \/ Interagir
    \/ ClicarCalcular
    \/ ClicarRecalcular
    \/ ClicarLimpar
    \/ Preparar
    \/ GeocodificarOrigem
    \/ Agrupar
    \/ Otimizar
    \/ Trecho
    \/ Retornar
    \/ Falha
    \/ Custos
    \/ Interrompida
    \/ Salvar
    \/ Exibir

SpecSessao == InitSessao /\ [][NextSessao]_vars

(***************************************************************************)
(* Properties                                                              *)
(***************************************************************************)
\* The run has returned a plan to main.
TemPlano == pc \in {"retorno", "fim"} /\ bool(rota_info)

\* The documents of the batch that carry coordinates, in input order.
ComCoordenadas == SelectSeq(documentos, LAMBDA d : bool(d.coordenadas))

\* The (city, region) key of a document.
Par(doc) == <<doc.cidade, doc.uf>>

\* The positions of ComCoordenadas at which a key is met for the first time.
Primeiros ==
    {k \in 1..Len(ComCoordenadas) :
        \A j \in 1..(k - 1) : Par(ComCoordenadas[j]) # Par(ComCoordenadas[k])}

\* The i-th smallest element of a set of numbers.
Enesimo(S, i) == CHOOSE k \in S : Cardinality({j \in S : j < k}) = i - 1

\* C1: the legs of a returned plan are in first-seen order: there is one
\* leg per distinct (city, region) key of the coordinate-bearing documents,
\* and leg i goes to the i-th such key met when scanning the input in order.
C1_OrdemDePrimeiraOcorrencia ==
    TemPlano =>
        /\ Len(rota_info.rotas) = Cardinality(Primeiros)
        /\ \A i \in 1..Len(rota_info.rotas) :
              LET d == ComCoordenadas[Enesimo(Primeiros, i)]
              IN  /\ rota_info.rotas[i].sequencia = i
                  /\ rota_info.rotas[i].destino = d.cidade \o ", " \o d.uf

\* A plan for a batch that goes to Rio, then Campinas, then Rio again: the
\* legs are Rio, Campinas (neither sorted nor in last-seen order).
C1_Witness ==
    /\ TemPlano
    /\ Len(documentos) = 3
    /\ Len(ComCoordenadas) = 3
    /\ documentos[1].cidade = "Rio de Janeiro"
    /\ documentos[2].cidade = "Campinas"
    /\ documentos[3].cidade = "Rio de Janeiro"
    /\ [k \in 1..Len(rota_info.rotas) |-> rota_info.rotas[k].destino]
         = <<"Rio de Janeiro, RJ", "Campinas, SP">>

\* The coordinate-bearing documents with the key of document d.
DoGrupo(d) == SelectSeq(ComCoordenadas, LAMBDA x : Par(x) = Par(d))

\* C2: a document without coordinates contributes to no leg: every leg
\* lists, counts and totals exactly the coordinate-bearing documents of its
\* key, the number of a coordinate-less document is in no leg, and the run
\* that met such a document still returned its plan without an error.
C2_SemCoordenadasNaoContribui ==
    (pc \in {"retorno", "fim"} /\ bool(origem_coords)) =>
        /\ bool(rota_info)
        /\ pc = "retorno" => erros = <<>>
        /\ \A i \in 1..Len(rota_info.rotas) :
              LET leg == rota_info.rotas[i]
                  g == DoGrupo(ComCoordenadas[Enesimo(Primeiros, i)])
              IN  /\ leg.documentos = [k \in 1..Len(g) |-> g[k].numero]
                  /\ leg.entregas = Len(g)
                  /\ leg.valor_total_entregas
                        = sum([k \in 1..Len(g) |-> g[k].valor_total])
                  /\ leg.peso_total_entregas
                        = sum([k \in 1..Len(g) |-> g[k].peso_total])
        /\ \A k \in 1..Len(documentos) :
              ~bool(documentos[k].coordenadas) =>
                  \A i \in 1..Len(rota_info.rotas) :
                      documentos[k].numero \notin Range(rota_info.rotas[i].documentos)
        /\ rota_info.resumo.total_entregas = Len(ComCoordenadas)

\* A plan for a batch in which a document without coordinates follows a
\* located document of the same city.
C2_Witness ==
    /\ TemPlano
    /\ \E k \in 2..Len(documentos) :
          /\ ~bool(documentos[k].coordenadas)
          /\ \E j \in 1..(k - 1) :
                /\ bool(documentos[j].coordenadas)
                /\ Par(documentos[j]) = Par(documentos[k])
    /\ Len(rota_info.rotas) >= 1

\* What the directions request of each leg gave the run (None: nothing).
ServicoForneceuTrecho == \E k \in DOMAIN servicos.trechos : bool(servicos.trechos[k])

\* C3: the flag api_utilizada of a returned plan is true exactly when the
\* routing service supplied the distance and time of at least one leg.
C3_FlagDizQueOServicoForneceuTrecho ==
    TemPlano => (rota_info.resumo.api_utilizada <=> ServicoForneceuTrecho)

\* The plan but for its flag.
SemFlag(p) == [p EXCEPT !.resumo.api_utilizada = FALSE]

\* C4: two runs on the same batch, origin and per-leg answers, whatever the
\* batch optimization answered to each, return the same legs and the same
\* totals: the plans are equal but for api_utilizada.
C4_OtimizacaoSoMudaAFlag ==
    (segunda_rodada /\ TemPlano /\ bool(anterior)) =>
        SemFlag(rota_info) = SemFlag(anterior)

\* A second plan of two legs or more whose flag differs from the first's.
C4_Witness ==
    /\ segunda_rodada
    /\ TemPlano
    /\ bool(anterior)
    /\ Len(rota_info.rotas) >= 2
    /\ rota_info.resumo.api_utilizada # anterior.resumo.api_utilizada

\* The services a run has called besides the geocoder.
ServicosChamados == {chamadas[k].servico : k \in DOMAIN chamadas} \ {"geocode"}

\* C5: when the origin is not geocoded the run returns None, having asked
\* for no optimization, no leg metrics and no toll and having built no leg;
\* main then reports the failure and does not call the cost estimator.
C5_OrigemNaoResolvida ==
    (chamadas # <<>> /\ ~bool(origem_coords)) =>
        /\ pc \in {"retorno", "fim"}
        /\ rota_info = None
        /\ rotas_calculadas = <<>>
        /\ entregas_por_local = <<>>
        /\ ServicosChamados = {}
        /\ pc = "fim" =>
              /\ custos_info = None
              /\ erros = <<"Nao foi possivel geocodificar o endereco de origem",
                           "Nao foi possivel calcular a rota">>

\* The handler has ended on an origin that was not geocoded.
C5_Witness ==
    /\ pc = "fim"
    /\ chamadas # <<>>
    /\ ~bool(origem_coords)
    /\ Len(erros) = 2

\* A step of the loop over the groups has appended a leg.
NovoTrecho == pc = "trechos" /\ Len(rotas_calculadas') = Len(rotas_calculadas) + 1

\* A directions request that succeeded: there was a credential, the request
\* returned, with status 200 and a first route whose summary has a distance
\* and a duration.
Sucedeu(key, r) ==
    /\ key # ""
    /\ r # None
    /\ ~r.excecao
    /\ r.status_code = 200
    /\ "routes" \in DOMAIN r.json
    /\ r.json.routes # <<>>
    /\ "summary" \in DOMAIN r.json.routes[1]
    /\ {"distance", "duration"} \subseteq DOMAIN r.json.routes[1].summary

\* C6: a leg whose directions request failed in any way carries the
\* haversine distance from the previous point to the group's coordinates and
\* that distance divided by 60 (both rounded to 2 decimals in the leg,
\* unrounded in the running totals); a leg whose request succeeded carries
\* the reported metres / 1000 and seconds / 3600; neither records an error.
C6_FallbackDoTrecho ==
    [][NovoTrecho =>
        LET n == Len(rotas_calculadas')
            leg == rotas_calculadas'[n]
            d == Haversine[ponto_anterior, entregas_por_local[n].coordenadas]
        IN  /\ erros' = erros
            /\ IF Sucedeu(openroute_key, resposta')
               THEN LET resumo == resposta'.json.routes[1].summary
                    IN  /\ leg.distancia_km = round2(resumo.distance * 10)
                        /\ leg.tempo_estimado_horas
                              = round2((resumo.duration * 100) \div 36)
               ELSE /\ leg.distancia_km = round2(d)
                    /\ leg.tempo_estimado_horas = round2(d \div 60)
                    /\ distancia_total' = distancia_total + d
                    /\ tempo_total' = tempo_total + d \div 60]_vars

\* The first leg, Sao Paulo to Rio, has fallen back after a 200 response
\* whose route has no summary.
C6_Witness ==
    /\ pc = "trechos"
    /\ Len(rotas_calculadas) = 1
    /\ openroute_key # ""
    /\ resposta = Http(200, [routes |-> <<[geometry |-> "polyline"]>>])
    /\ rotas_calculadas[1].coordenadas_destino = RioDeJaneiro
    /\ rotas_calculadas[1].distancia_km = round2(Haversine[SaoPaulo, RioDeJaneiro])
    /\ rotas_calculadas[1].distancia_km > 0

C9_PedagioSemprePorEstimativa ==
    [][NovoTrecho =>
        LET n == Len(rotas_calculadas')
            pedagios == rotas_calculadas'[n].pedagios
            destino == entregas_por_local[n].coordenadas
        IN  /\ pedagios = Pedagios["", ponto_anterior, destino]
            /\ pedagios = Pedagios["chave-tollguru", ponto_anterior, destino]
            /\ pedagios.estimado = TRUE]_vars

\* A leg priced while a toll credential is configured.
C9_Witness ==
    /\ tollguru_key = "chave-tollguru"
    /\ Len(rotas_calculadas) >= 1
    /\ rotas_calculadas[1].pedagios.estimado = TRUE
    /\ rotas_calculadas[1].pedagios.valor_total > 0

\* The eight category costs of a report, as reported.
Categorias(c) ==
    <<c.combustivel, c.pedagio, c.desgaste_veiculo, c.motorista, c.seguro,
      c.taxa_entregas, c.alimentacao, c.pernoite>>

\* C10: the custo_total of every cost report is exactly the sum of the
\* eight category costs the report lists.
C10_TotalReconcilia ==
    bool(custos_info) =>
        custos_info.resumo_custos.custo_total
            = sum(Categorias(custos_info.detalhamento_custos))

\* _generate_recommendations has returned.
RecomendacoesFeitas == pc = "retornou" /\ args.funcao = "generate_recommendations"

\* How many entries of a list are in a set.
Quantos(lista, S) == Cardinality({k \in DOMAIN lista : lista[k] \in S})

Elevado == "Custo de transporte elevado (>15% do valor das mercadorias)"
Consolidar == "Considere consolidar mais entregas na mesma rota"
Excelente == "Excelente eficiencia de custos (<5% do valor das mercadorias)"
NaMedia == "Custos dentro da media esperada (5-15%)"

\* C11: for every cost ratio the list has exactly one of the three bucket
\* flags: "elevated" (followed by the consolidation hint) iff ratio > 15,
\* "excellent" iff ratio < 5, "within the expected range" iff
\* 5 <= ratio <= 15.
C11_UmaFaixaPorPercentual ==
    RecomendacoesFeitas =>
        LET p == args.percentual_custo IN
        /\ Quantos(ret, {Elevado, Excelente, NaMedia}) = 1
        /\ Elevado \in Range(ret) <=> p > 15 * DezMil
        /\ Consolidar \in Range(ret) <=> p > 15 * DezMil
        /\ Excelente \in Range(ret) <=> p < 5 * DezMil
        /\ NaMedia \in Range(ret) <=> (5 * DezMil <= p /\ p <= 15 * DezMil)
        /\ Elevado \in Range(ret) => ret[1] = Elevado /\ ret[2] = Consolidar

\* The ratio is exactly 15 and the list says "within the expected range".
C11_Witness ==
    /\ RecomendacoesFeitas
    /\ args.percentual_custo = 15 * DezMil
    /\ ret[1] = NaMedia

RotaLonga == "Rota longa (>3 dias) - avalie logistica de pernoite"
Terceirizar == "Avalie a possibilidade de terceirizacao do transporte"
PedagioAlto == "Custo de pedagios alto - considere rotas alternativas"
Monitorar == "Monitore regularmente os custos de combustivel"
Manter == "Mantenha o veiculo em bom estado para reduzir custos"

\* One entry if the condition holds, none otherwise.
Se(condicao, entrada) == IF condicao THEN <<entrada>> ELSE <<>>

\* C17: every list is the bucket entry or entries, then "long trip" iff
\* days > 3, then "consider outsourcing" iff total > 5000, then "high toll
\* cost" iff tolls > 0.2 x total, then the fuel and the vehicle reminder.
C17_FormaDaLista ==
    RecomendacoesFeitas =>
        \E b \in 1..2 :
            /\ b <= Len(ret)
            /\ Range(SubSeq(ret, 1, b)) \subseteq {Elevado, Consolidar, Excelente, NaMedia}
            /\ SubSeq(ret, b + 1, Len(ret))
                  = Se(args.rota_info.resumo.tempo_total_dias > 3 * DezMil, RotaLonga)
                    \o Se(args.custo_total > 5000 * DezMil, Terceirizar)
                    \o Se(5 * args.rota_info.resumo.custo_pedagogios_total
                            > args.custo_total, PedagioAlto)
                    \o <<Monitorar, Manter>>

\* A list with every optional entry: 3.1 days, a total of 5000.01 and tolls
\* of 1000.01 (more than its fifth, 1000.002).
C17_Witness ==
    /\ RecomendacoesFeitas
    /\ args.custo_total = 5000 * DezMil + 100
    /\ args.rota_info.resumo.custo_pedagogios_total = 1000 * DezMil + 100
    /\ SubSeq(ret, Len(ret) - 4, Len(ret))
          = <<RotaLonga, Terceirizar, PedagioAlto, Monitorar, Manter>>

\* The handler has ended after a run that returned a plan.
CustosPedidos == pc = "fim" /\ bool(rota_info)

\* C12: for a plan with no routed delivery or no distance the cost estimator
\* raises the division error and returns no report (main stores none); for
\* every other plan it returns a report and raises nothing.
C12_DivisaoPorZeroERelatada ==
    CustosPedidos =>
        IF rota_info.resumo.total_entregas = 0
           \/ rota_info.resumo.distancia_total_km = 0
        THEN custos_info = None /\ erros = <<"ZeroDivisionError">>
        ELSE bool(custos_info) /\ erros = <<>>

\* The estimator has raised on a plan that routes one delivery over no
\* distance (the destination is the origin).
C12_Witness ==
    /\ CustosPedidos
    /\ rota_info.resumo.total_entregas = 1
    /\ rota_info.resumo.distancia_total_km = 0
    /\ custos_info = None
    /\ erros = <<"ZeroDivisionError">>

\* The estimator has raised on a plan without legs (no document located).
C12_SemEntregas ==
    /\ CustosPedidos
    /\ rota_info.rotas = <<>>
    /\ rota_info.resumo.total_entregas = 0
    /\ erros = <<"ZeroDivisionError">>

\* The second run has returned, every service having answered it as it
\* answered the first (the origin and the legs are replayed; the batch
\* optimization gave the same result).
MesmasRespostas ==
    /\ segunda_rodada
    /\ pc \in {"retorno", "fim"}
    /\ rota_otimizada_api = servicos.otimizacao

\* C13: a second run on the same documents and origin, the services
\* answering as in the first, returns the same legs and the same summary
\* (or no plan again): nothing of the first run reaches the second.
C13_SegundaRodadaIgual ==
    MesmasRespostas => rota_info = anterior

\* The second run has returned the first run's plan of two legs or more, one
\* of them supplied by the routing service and one by the fallback.
C13_Witness ==
    /\ MesmasRespostas
    /\ TemPlano
    /\ rota_info = anterior
    /\ Len(rota_info.rotas) >= 2
    /\ \E j, k \in DOMAIN servicos.trechos :
          bool(servicos.trechos[j]) /\ ~bool(servicos.trechos[k])

\* One field of every leg of a plan, in leg order.
Coluna(p, campo) == [k \in 1..Len(p.rotas) |-> p.rotas[k][campo]]

\* C14: in every returned plan the totals are the aggregate of the legs:
\* the distance, time and toll totals are the sums of the legs' distances,
\* times and toll totals, total_cidades is the number of legs and
\* total_entregas the sum of the legs' delivery counts.
C14_TotaisSaoASomaDosTrechos ==
    TemPlano =>
        /\ rota_info.resumo.distancia_total_km = sum(Coluna(rota_info, "distancia_km"))
        /\ rota_info.resumo.tempo_total_horas
              = sum(Coluna(rota_info, "tempo_estimado_horas"))
        /\ rota_info.resumo.custo_pedagogios_total
              = sum([k \in 1..Len(rota_info.rotas) |->
                        rota_info.rotas[k].pedagios.valor_total])
        /\ rota_info.resumo.total_cidades = Len(rota_info.rotas)
        /\ rota_info.resumo.total_entregas = sum(Coluna(rota_info, "entregas"))

ValoresLocalizados == [k \in 1..Len(ComCoordenadas) |-> ComCoordenadas[k].valor_total]

\* C16: the cargo value of a cost report is the sum of the legs' cargo
\* values, which is the sum of the declared values of the located documents;
\* the ratio is 0 when that value is 0 (a report is returned all the same)
\* and otherwise 100 x total / value: the reported ratio, rounded to 0.01,
\* times the value over 100 is within 0.01% of the value plus 0.01 of the
\* reported total.  The estimator raises only for no delivery or no distance.
C16_ValorEPercentual ==
    CustosPedidos =>
        LET valor == sum(Coluna(rota_info, "valor_total_entregas")) IN
        /\ valor = sum(ValoresLocalizados)
        /\ erros # <<>> =>
              \/ rota_info.resumo.total_entregas = 0
              \/ rota_info.resumo.distancia_total_km = 0
        /\ bool(custos_info) =>
              LET r == custos_info.resumo_custos IN
              /\ r.valor_mercadorias = valor
              /\ valor = 0 => r.percentual_custo = 0
              /\ valor > 0 =>
                    /\ r.percentual_custo > 0
                    /\ Abs(MulDM(r.percentual_custo, valor \div 100) - r.custo_total)
                          <= valor \div DezMil + 100

\* A report on a batch whose only located document declares no value, next
\* to a document of 900.00 that has no coordinates: value 0, ratio 0.
C16_Witness ==
    /\ CustosPedidos
    /\ bool(custos_info)
    /\ \E k \in DOMAIN documentos :
          ~bool(documentos[k].coordenadas) /\ documentos[k].valor_total > 0
    /\ custos_info.resumo_custos.valor_mercadorias = 0
    /\ custos_info.resumo_custos.percentual_custo = 0
    /\ custos_info.resumo_custos.custo_total > 0

\* A report on legs worth 6000.00 and 1500.50: value 7500.50.
C16_ValorPositivo ==
    /\ CustosPedidos
    /\ bool(custos_info)
    /\ Coluna(rota_info, "valor_total_entregas") = <<6000 * DezMil, 15005000>>
    /\ custos_info.resumo_custos.valor_mercadorias = 75005000
    /\ custos_info.resumo_custos.percentual_custo > 15 * DezMil

\* The calls of a service in this run, and those of them that sent a request.
Chamadas(servico) == SelectSeq(chamadas, LAMBDA c : c.servico = servico)
Requisicoes(servico) == SelectSeq(chamadas, LAMBDA c : c.servico = servico /\ c.requisicao)

\* C18: a run sends the batch optimization request at most once and at most
\* one directions request per leg: whatever the requests answered, there
\* are as many directions calls as legs computed so far, each with one
\* request if there is a credential and none otherwise.
C18_SemNovaTentativa ==
    /\ Len(Requisicoes("optimization")) <= 1
    /\ Len(Chamadas("optimization")) <= 1
    /\ Len(Chamadas("directions")) = Len(rotas_calculadas)
    /\ Len(Requisicoes("directions"))
          = IF openroute_key = "" THEN 0 ELSE Len(rotas_calculadas)
    /\ Len(Chamadas("tolls")) = Len(rotas_calculadas)
    /\ Len(Chamadas("geocode")) <= 1

\* Two legs computed, the second after a directions request that timed out
\* and an optimization request that failed: three requests in all.
C18_Witness ==
    /\ pc = "trechos"
    /\ openroute_key # ""
    /\ Len(rotas_calculadas) = 2
    /\ resposta = Timeout
    /\ ~bool(rota_otimizada_api)
    /\ Len(Requisicoes("optimization")) = 1
    /\ Len(Requisicoes("directions")) = 2

\* The report the estimator returns for the plan that main holds and the
\* parameters that a report echoes.
DeNovo(plan, report) ==
    calculate_route_costs(plan,
                          report.parametros_utilizados.consumo_medio_km_l,
                          report.parametros_utilizados.preco_combustivel_litro,
                          report.parametros_utilizados.valor_hora_motorista)

HaversineChamada == pc = "retornou" /\ args.funcao = "calculate_haversine_distance"

\* C20: for all coordinate pairs A, B the great-circle distance function
\* gives a result, the result is never negative, dist(A, B) = dist(B, A),
\* and dist(A, A) = 0.
C20_DistanciaSimetricaENula ==
    HaversineChamada =>
        /\ erros = <<>>
        /\ ret >= 0
        /\ ret = calculate_haversine_distance(args.coord2, args.coord1, FALSE)
        /\ args.coord1 = args.coord2 => ret = 0

\* The part of C20 that holds of every call: a call that returns gives a
\* distance that is not negative, is the distance of the swapped pair and is
\* 0 from a point to itself; a call that raises was given antipodal points.
C20_QuandoRetorna ==
    HaversineChamada =>
        IF erros = <<>>
        THEN /\ ret >= 0
             /\ ret = calculate_haversine_distance(args.coord2, args.coord1, FALSE)
             /\ args.coord1 = args.coord2 => ret = 0
        ELSE Antipodas(args.coord1, args.coord2)

\* Calls that raise, calls that return the distance of two different points,
\* and calls that return the distance from a point to itself.
C20_Levanta == HaversineChamada /\ erros = <<"ValueError">>
C20_Retorna == HaversineChamada /\ erros = <<>> /\ ret > 0
C20_MesmoPonto == HaversineChamada /\ erros = <<>> /\ args.coord1 = args.coord2

\* Where leg k of plan p sets out from: the origin, or the destination of
\* the leg before it.
Partida(p, k) ==
    IF k = 1 THEN [nome |-> endereco_origem, ponto |-> p.origem_coordenadas]
    ELSE [nome |-> p.rotas[k - 1].destino,
          ponto |-> p.rotas[k - 1].coordenadas_destino]

\* C21: the legs of a returned plan form a chain: leg k has sequencia k, its
\* origin label is the origin address (k = 1) or the destination label of
\* leg k - 1, and its start point is the origin's coordinates or the
\* destination coordinates of leg k - 1: its tolls, and its distance when
\* the routing service gave none, are those between that point and its
\* destination.
C21_TrechosEmCadeia ==
    TemPlano =>
        \A k \in 1..Len(rota_info.rotas) :
            LET leg == rota_info.rotas[k]
                partida == Partida(rota_info, k)
            IN  /\ leg.sequencia = k
                /\ leg.origem = partida.nome
                /\ leg.pedagios = Pedagios[tollguru_key, partida.ponto,
                                           leg.coordenadas_destino]
                /\ ~bool(servicos.trechos[k]) =>
                      leg.distancia_km =
                          round2(Haversine[partida.ponto, leg.coordenadas_destino])

\* A plan of three legs, the last two measured by the fallback from a point
\* that is not the origin.
C21_Witness ==
    /\ TemPlano
    /\ Len(rota_info.rotas) = 3
    /\ \A k \in 2..3 :
          /\ ~bool(servicos.trechos[k])
          /\ rota_info.rotas[k - 1].coordenadas_destino # origem_coords
          /\ rota_info.rotas[k].origem = rota_info.rotas[k - 1].destino
          /\ rota_info.rotas[k].distancia_km > 0

\* C22: the destination coordinates of a leg are those of the first
\* coordinate-bearing document of its key in input order, and the later
\* documents of the key, whatever coordinates they carry, are listed in
\* that leg.
C22_CoordenadasDoPrimeiro ==
    TemPlano =>
        \A i \in 1..Len(rota_info.rotas) :
            LET leg == rota_info.rotas[i]
                g == DoGrupo(ComCoordenadas[Enesimo(Primeiros, i)])
            IN  /\ leg.coordenadas_destino = g[1].coordenadas
                /\ \A k \in 1..Len(g) : g[k].numero \in Range(leg.documentos)

\* A plan with a leg of two documents geocoded to different points, seated
\* at the point of the one that comes first in the batch.
C22_Witness ==
    /\ TemPlano
    /\ \E i \in 1..Len(rota_info.rotas) :
          \E j, k \in 1..Len(documentos) :
              /\ j < k
              /\ Par(documentos[j]) = Par(documentos[k])
              /\ bool(documentos[j].coordenadas)
              /\ bool(documentos[k].coordenadas)
              /\ documentos[j].coordenadas # documentos[k].coordenadas
              /\ rota_info.rotas[i].coordenadas_destino = documentos[j].coordenadas
              /\ rota_info.rotas[i].documentos
                    = <<documentos[j].numero, documentos[k].numero>>

\* A direct call of the grouping loop has returned.
AgruparChamado == pc = "retornou" /\ args.funcao = "agrupar"

\* C23: the documents aggregated into one group (one leg) share one
\* (city, region) pair, and two documents with different pairs are never in
\* the same group, whatever strings the city and the region are.
C23_UmParPorTrecho ==
    AgruparChamado =>
        /\ \A g \in DOMAIN ret :
              \A j, k \in DOMAIN ret[g].documentos :
                  Par(ret[g].documentos[j]) = Par(ret[g].documentos[k])
        /\ \A j, k \in DOMAIN args.documentos :
              Par(args.documentos[j]) # Par(args.documentos[k]) =>
                  ~\E g \in DOMAIN ret :
                      {args.documentos[j], args.documentos[k]}
                          \subseteq Range(ret[g].documentos)

\* What holds of the groups: the documents of a group spell the same key
\* string, which is the group's, and different groups have different keys.
C23_UmaChavePorTrecho ==
    AgruparChamado =>
        /\ \A g \in DOMAIN ret :
              \A k \in DOMAIN ret[g].documentos :
                  chave_local(ret[g].documentos[k]) = ret[g].chave
        /\ \A g, h \in DOMAIN ret : ret[g].chave = ret[h].chave => g = h

\* A call that returned a group of two documents.
C23_Agrupou ==
    AgruparChamado /\ \E g \in DOMAIN ret : Len(ret[g].documentos) >= 2

\* The legs of plan p that list the document number n, each as often as it
\* lists it.
OndeEsta(p, n) ==
    {<<i, k>> \in (1..Len(p.rotas)) \X (1..MaxDocs + 1) :
        k <= Len(p.rotas[i].documentos) /\ p.rotas[i].documentos[k] = n}

\* C24: in a returned plan every coordinate-bearing document of the batch
\* is listed once, in one leg; no two legs have the same destination label;
\* and total_entregas is the number of coordinate-bearing documents.
C24_EntregasConservadas ==
    TemPlano =>
        /\ \A k \in 1..Len(ComCoordenadas) :
              Cardinality(OndeEsta(rota_info, ComCoordenadas[k].numero)) = 1
        /\ \A i, j \in 1..Len(rota_info.rotas) :
              rota_info.rotas[i].destino = rota_info.rotas[j].destino => i = j
        /\ rota_info.resumo.total_entregas = Len(ComCoordenadas)

\* A plan of two legs for three located documents, two of them to the same
\* destination with another destination's document between them.
C24_Witness ==
    /\ TemPlano
    /\ Len(ComCoordenadas) = 3
    /\ Len(rota_info.rotas) = 2
    /\ Par(documentos[1]) = Par(documentos[3])
    /\ rota_info.rotas[1].entregas = 2
    /\ rota_info.resumo.total_entregas = 3

\* C25: every leg of a returned plan is charged at least one toll plaza:
\* numero_pracas >= 1 and valor_total >= 15.0, also on a leg of distance
\* zero, and the summary's toll total is at least 15.0 times the number of
\* legs.
C25_AoMenosUmaPraca ==
    TemPlano =>
        /\ \A k \in 1..Len(rota_info.rotas) :
              /\ rota_info.rotas[k].pedagios.numero_pracas >= 1
              /\ rota_info.rotas[k].pedagios.valor_total >= valor_medio_pedagio
        /\ rota_info.resumo.custo_pedagogios_total
              >= Len(rota_info.rotas) * valor_medio_pedagio

\* A plan of two legs or more, one of them from a point to itself: that leg
\* has distance 0 and is charged one plaza, 15.0.
C25_Witness ==
    /\ TemPlano
    /\ Len(rota_info.rotas) >= 2
    /\ \E k \in 1..Len(rota_info.rotas) :
          /\ Partida(rota_info, k).ponto = rota_info.rotas[k].coordenadas_destino
          /\ rota_info.rotas[k].distancia_km = 0
          /\ rota_info.rotas[k].pedagios.numero_pracas = 1
          /\ rota_info.rotas[k].pedagios.valor_total = valor_medio_pedagio

\* The cost report main received is for a cargo of value zero.
SemValor ==
    /\ pc = "fim"
    /\ bool(custos_info)
    /\ sum(Coluna(rota_info, "valor_total_entregas")) = 0

\* C26: when the routed cargo value is zero and a report is produced (the
\* deliveries and the distance are not zero), the report's cost ratio is 0
\* and its recommendations flag excellent efficiency, and neither of the
\* other two bands, whatever the total cost.
C26_SemValorEExcelente ==
    SemValor =>
        /\ rota_info.resumo.total_entregas > 0
        /\ rota_info.resumo.distancia_total_km > 0
        /\ custos_info.resumo_custos.valor_mercadorias = 0
        /\ custos_info.resumo_custos.percentual_custo = 0
        /\ custos_info.recomendacoes[1] = Excelente
        /\ Quantos(custos_info.recomendacoes, {Elevado, Consolidar, NaMedia}) = 0

\* A report for a cargo of value zero whose total cost is above 1000.
C26_Witness ==
    /\ SemValor
    /\ custos_info.resumo_custos.custo_total > 1000 * DezMil
    /\ custos_info.recomendacoes[1] = Excelente

\* A script run has ended and the session says that a route is calculated.
RotaCalculada ==
    /\ pc = "ocioso"
    /\ "rota_calculada" \in DOMAIN session_state
    /\ session_state.rota_calculada

\* C27: at the end of every script run, whatever uploads, Calcular,
\* Recalcular and Limpar came before, rota_calculada = True implies that the
\* session's rota_info and custos_info are both there and come from one
\* calculation: custos_info is the estimator's report on that rota_info.
C27_CalculadaTemOsDois ==
    RotaCalculada =>
        /\ bool(session_state.rota_info)
        /\ bool(session_state.custos_info)
        /\ session_state.custos_info
              = DeNovo(session_state.rota_info, session_state.custos_info)

\* The session holds the results of an earlier calculation at the end of a
\* run in which "Calcular" was pressed and gave no plan.
C27_Witness ==
    /\ RotaCalculada
    /\ evento = "calcular"
    /\ ~bool(rota_info)
    /\ erros # <<>>
    /\ bool(tela.resultados)
    /\ tela.resultados.rota_info = session_state.rota_info

\* The three session values a calculation stores (None for an absent key).
Resultados(ss) ==
    [k \in {"rota_calculada", "rota_info", "custos_info"} |->
        IF k \in DOMAIN ss THEN ss[k] ELSE None]

\* The handler of "Calcular" is running, or has run, and has not come to
\* store a result.
CalculoSemResultado ==
    /\ evento = "calcular"
    /\ pc \in {"inicio", "agrupar", "otimizar", "trechos", "retorno", "fim"}
    /\ ~(pc = "fim" /\ bool(rota_info) /\ bool(custos_info))

RerunComResultados ==
    /\ evento \in {"rerun", "calcular"}
    /\ bool(tela.resultados)

\* C29: after a successful Calcular the results stay displayed on every
\* later run with the same uploads and neither Recalcular nor Limpar
\* pressed, also when one uploaded file gave no document: the run ends
\* with results on the screen and rota_calculada still true.
C29_ResultadosPermanecem ==
    [][(RerunComResultados /\ pc # "ocioso" /\ pc' = "ocioso") =>
          /\ bool(tela'.resultados)
          /\ session_state'.rota_calculada
      ]_vars

\* The same for uploads whose files all gave a document.
C29_PermanecemSeTodosViramDocumento ==
    [][(/\ RerunComResultados /\ pc # "ocioso" /\ pc' = "ocioso"
        /\ Len(documentos) = Len(uploaded_files)) =>
          /\ bool(tela'.resultados)
          /\ session_state'.rota_calculada
      ]_vars

\* A plain rerun ended with the results of the calculation still shown.
C29_Permaneceu ==
    /\ pc = "ocioso"
    /\ evento = "rerun"
    /\ bool(tela.resultados)
    /\ session_state.rota_calculada

\* A run has ended with the route map on the screen.
MapaNaTela ==
    /\ pc = "ocioso"
    /\ bool(tela.resultados)
    /\ bool(tela.mapa)

\* C30: whenever the route map is shown, it is the map of the plan the
\* session holds, which is the plan shown beside it: no map of an earlier
\* calculation is displayed with a newer plan.
C30_MapaDoPlanoAtual ==
    MapaNaTela =>
        /\ tela.mapa = session_state.mapa_html
        /\ tela.mapa = criar_mapa_rota(session_state.rota_info)

\* The map shown is always the one cached in the session, and it is the
\* map of some plan of the uploads.
C30_MapaEmCache ==
    MapaNaTela => tela.mapa = session_state.mapa_html

\* The first calculation of a session, and the first after Recalcular or
\* Limpar, shows the map of its own plan.
C30_MapaNovo ==
    /\ MapaNaTela
    /\ evento = "calcular"
    /\ tela.mapa = criar_mapa_rota(session_state.rota_info)

=============================================================================
